---- MODULE Spec2Model ----
(***************************************************************************)
(* Model of the SoftwareAnalyzer server: the rule-based classification     *)
(* engine (SoftwareAnalyzer.loadRules / shouldExclude / findMapping /      *)
(* analyze), the POST /api/analyze handler with its disposition enrichment, *)
(* and the administrative routes that edit the rule and disposition stores. *)
(*                                                                         *)
(* JavaScript strings that the code inspects character by character (names, *)
(* patterns, textual device counts) are sequences of one-character strings; *)
(* strings the code only compares or copies (categories, canonical names,   *)
(* publishers) are TLA+ strings.  SQL NULL / JS null is Null for text and 0 *)
(* for ids (SERIAL ids start at 1).                                         *)
(***************************************************************************)
EXTENDS Integers, Sequences, FiniteSets, TLC

\* ------------------------------------------------------------------------
\* Bounds of the model
\* ------------------------------------------------------------------------

\* longest uploaded sheet (rows) drawn as input of a run
MaxEntries == 2
\* most rows per rule table in the drawn rule stores
MaxRules == 2
\* most administrative requests in one behaviour
MaxEdits == 1

Null == "null"

\* ------------------------------------------------------------------------
\* JavaScript string primitives
\* ------------------------------------------------------------------------

Range(s) == {s[i] : i \in 1..Len(s)}

ToLowerChar(c) ==
    CASE c = "A" -> "a"
      [] c = "B" -> "b"
      [] c = "C" -> "c"
      [] OTHER -> c

toLowerCase(s) == [i \in 1..Len(s) |-> ToLowerChar(s[i])]

IsWhitespace(c) == c = " "

trim(s) ==
    LET keep == {i \in 1..Len(s) : ~IsWhitespace(s[i])}
    IN  IF keep = {} THEN <<>>
        ELSE LET lo == CHOOSE i \in keep : \A j \in keep : i <= j
                 hi == CHOOSE i \in keep : \A j \in keep : i >= j
             IN  SubSeq(s, lo, hi)

startsWith(s, p) == Len(p) <= Len(s) /\ SubSeq(s, 1, Len(p)) = p

endsWith(s, p) == Len(p) <= Len(s) /\ SubSeq(s, Len(s) - Len(p) + 1, Len(s)) = p

includes(s, p) == \E i \in 0..(Len(s) - Len(p)) : SubSeq(s, i + 1, i + Len(p)) = p

\* new RegExp(pattern, 'i') throws a SyntaxError on an unterminated group;
\* the patterns of the model have no ")" so any "(" is unterminated.
RegExpThrows(pattern) == "(" \in Range(pattern)

\* regex.test(name) under flag 'i' for the patterns of the model: literal
\* characters, optionally anchored by a leading "^"; unanchored otherwise.
RegExpTest(pattern, name) ==
    IF pattern # <<>> /\ Head(pattern) = "^"
    THEN startsWith(toLowerCase(name), toLowerCase(Tail(pattern)))
    ELSE includes(toLowerCase(name), toLowerCase(pattern))

\* ------------------------------------------------------------------------
\* SoftwareAnalyzer.shouldExclude / findMapping
\* ------------------------------------------------------------------------

\* the switch of shouldExclude comparing against the pattern as stored
ExclusionMatches_CaseSensitive(rule, name) ==
    LET pattern == rule.pattern_value
    IN  CASE rule.pattern_type = "exact" -> toLowerCase(name) = pattern
          [] rule.pattern_type = "contains" -> includes(toLowerCase(name), pattern)
          [] rule.pattern_type = "startswith" -> startsWith(toLowerCase(name), pattern)
          [] rule.pattern_type = "endswith" -> endsWith(toLowerCase(name), pattern)
          [] rule.pattern_type = "regex" ->
                IF RegExpThrows(pattern) THEN FALSE ELSE RegExpTest(pattern, name)
          [] OTHER -> FALSE

\* the switch of shouldExclude with a regex case that fails open
ExclusionMatches_InvalidMatches(rule, name) ==
    LET pattern == rule.pattern_value
    IN  CASE rule.pattern_type = "exact" -> toLowerCase(name) = toLowerCase(pattern)
          [] rule.pattern_type = "contains" -> includes(toLowerCase(name), toLowerCase(pattern))
          [] rule.pattern_type = "startswith" -> startsWith(toLowerCase(name), toLowerCase(pattern))
          [] rule.pattern_type = "endswith" -> endsWith(toLowerCase(name), toLowerCase(pattern))
          [] rule.pattern_type = "regex" ->
                IF RegExpThrows(pattern) THEN TRUE ELSE RegExpTest(pattern, name)
          [] OTHER -> FALSE

\* the switch of shouldExclude on rule.pattern_type
ExclusionMatches(rule, name) ==
    LET pattern == rule.pattern_value
    IN  CASE rule.pattern_type = "exact" -> toLowerCase(name) = toLowerCase(pattern)
          [] rule.pattern_type = "contains" -> includes(toLowerCase(name), toLowerCase(pattern))
          [] rule.pattern_type = "startswith" -> startsWith(toLowerCase(name), toLowerCase(pattern))
          [] rule.pattern_type = "endswith" -> endsWith(toLowerCase(name), toLowerCase(pattern))
          [] rule.pattern_type = "regex" ->
                IF RegExpThrows(pattern) THEN FALSE ELSE RegExpTest(pattern, name)
          [] OTHER -> FALSE

\* the switch of findMapping on rule.pattern_type (it has no 'endswith' case)
MappingMatches(rule, name) ==
    LET pattern == rule.original_pattern
    IN  CASE rule.pattern_type = "exact" -> toLowerCase(name) = toLowerCase(pattern)
          [] rule.pattern_type = "contains" -> includes(toLowerCase(name), toLowerCase(pattern))
          [] rule.pattern_type = "startswith" -> startsWith(toLowerCase(name), toLowerCase(pattern))
          [] rule.pattern_type = "regex" ->
                IF RegExpThrows(pattern) THEN FALSE ELSE RegExpTest(pattern, name)
          [] OTHER -> FALSE

NoRule == [id |-> 0]

RECURSIVE ExclusionScan(_, _, _)
ExclusionScan(exclusionRules, name, i) ==
    IF i > Len(exclusionRules) THEN [excluded |-> FALSE, rule |-> NoRule]
    ELSE IF ExclusionMatches(exclusionRules[i], name)
         THEN [excluded |-> TRUE, rule |-> exclusionRules[i]]
         ELSE ExclusionScan(exclusionRules, name, i + 1)

RECURSIVE ExclusionScanLast(_, _, _)
ExclusionScanLast(exclusionRules, name, i) ==
    IF i < 1 THEN [excluded |-> FALSE, rule |-> NoRule]
    ELSE IF ExclusionMatches(exclusionRules[i], name)
         THEN [excluded |-> TRUE, rule |-> exclusionRules[i]]
         ELSE ExclusionScanLast(exclusionRules, name, i - 1)

shouldExclude_LastMatch(exclusionRules, softwareName) ==
    ExclusionScanLast(exclusionRules, trim(softwareName), Len(exclusionRules))

shouldExclude(exclusionRules, softwareName) ==
    ExclusionScan(exclusionRules, trim(softwareName), 1)

RECURSIVE MappingScan(_, _, _)
MappingScan(mappingRules, name, i) ==
    IF i > Len(mappingRules) THEN NoRule
    ELSE IF MappingMatches(mappingRules[i], name)
         THEN mappingRules[i]
         ELSE MappingScan(mappingRules, name, i + 1)

RECURSIVE MappingScanLast(_, _, _)
MappingScanLast(mappingRules, name, i) ==
    IF i < 1 THEN NoRule
    ELSE IF MappingMatches(mappingRules[i], name)
         THEN mappingRules[i]
         ELSE MappingScanLast(mappingRules, name, i - 1)

findMapping_LastMatch(mappingRules, softwareName) ==
    MappingScanLast(mappingRules, trim(softwareName), Len(mappingRules))

\* returns the rule, or NoRule for null
findMapping(mappingRules, softwareName) ==
    MappingScan(mappingRules, trim(softwareName), 1)

\* ------------------------------------------------------------------------
\* POST /api/analyze: rows of the sheet -> softwareList
\* ------------------------------------------------------------------------

\* a cell value: a number, a text, or no (or an empty / zero) cell
Num(n) == [t |-> "num", n |-> n, s |-> <<>>]
Str(s) == [t |-> "str", n |-> 0, s |-> s]
Missing == [t |-> "none", n |-> 0, s |-> <<>>]

\* JS truthiness of a cell value
Truthy(v) ==
    CASE v.t = "num" -> v.n # 0
      [] v.t = "str" -> v.s # <<>>
      [] OTHER -> FALSE

\* data.map(row => ({name, publisher: publisher || '', deviceCount: deviceCount || 1}))
\*     .filter(item => item.name)
RECURSIVE ParseRows(_)
ParseRows(data) ==
    IF data = <<>> THEN <<>>
    ELSE LET row == Head(data)
             item == [name |-> row.name,
                      publisher |-> row.publisher,
                      deviceCount |-> IF Truthy(row.deviceCount) THEN row.deviceCount ELSE Num(1)]
         IN  IF item.name # <<>> THEN <<item>> \o ParseRows(Tail(data))
             ELSE ParseRows(Tail(data))

\* ------------------------------------------------------------------------
\* SoftwareAnalyzer.analyze: the classification loop
\* ------------------------------------------------------------------------

EmptyResults == [included |-> <<>>, excluded |-> <<>>, unmapped |-> <<>>]

\* results.included is a Map: a sequence of aggregates in insertion order,
\* looked up by canonicalName
IncludedHas(included, canonicalName) ==
    \E k \in 1..Len(included) : included[k].canonicalName = canonicalName

IncludedIndex(included, canonicalName) ==
    CHOOSE k \in 1..Len(included) : included[k].canonicalName = canonicalName

\* x || dflt for a nullable text column
OrDefault(x, dflt) == IF x = Null \/ x = "" THEN dflt ELSE x

NewAggregate(mapping) ==
    [canonicalName |-> mapping.canonical_name,
     category |-> OrDefault(mapping.category, "Uncategorized"),
     deploymentType |-> OrDefault(mapping.deployment_type, "Desktop"),
     description |-> OrDefault(mapping.description, ""),
     originalEntries |-> <<>>]

OriginalEntry(name, item) ==
    [name |-> name, publisher |-> item.publisher, deviceCount |-> item.deviceCount]

\* lines 175-190 with the has() test dropped: every hit opens a new aggregate
AddToIncluded_NoHasCheck(included, mapping, name, item) ==
    Append(included,
           [NewAggregate(mapping) EXCEPT !.originalEntries = <<OriginalEntry(name, item)>>])

\* lines 175-190 with set() on every hit: the later rule overwrites the metadata
AddToIncluded_Overwrite(included, mapping, name, item) ==
    IF IncludedHas(included, mapping.canonical_name)
    THEN LET k == IncludedIndex(included, mapping.canonical_name)
         IN  [included EXCEPT ![k] =
                [NewAggregate(mapping) EXCEPT !.originalEntries =
                    Append(included[k].originalEntries, OriginalEntry(name, item))]]
    ELSE AddToIncluded_NoHasCheck(included, mapping, name, item)

\* lines 175-190 with unshift() for push(): the entry goes to the front
AddToIncluded_Unshift(included, mapping, name, item) ==
    LET seeded == IF IncludedHas(included, mapping.canonical_name)
                  THEN included
                  ELSE Append(included, NewAggregate(mapping))
        k == IncludedIndex(seeded, mapping.canonical_name)
    IN  [seeded EXCEPT ![k].originalEntries = <<OriginalEntry(name, item)>> \o @]

\* lines 175-190: create the aggregate on first sight, then push the entry
AddToIncluded(included, mapping, name, item) ==
    LET seeded == IF IncludedHas(included, mapping.canonical_name)
                  THEN included
                  ELSE Append(included, NewAggregate(mapping))
        k == IncludedIndex(seeded, mapping.canonical_name)
    IN  [seeded EXCEPT ![k].originalEntries = Append(@, OriginalEntry(name, item))]

\* the loop body with the mapping looked up before the exclusion check
ClassifyItem_MappingFirst(results, item, exclusionRules, mappingRules) ==
    LET name == trim(item.name)
        exclusionCheck == shouldExclude(exclusionRules, name)
        mapping == findMapping(mappingRules, name)
    IN  IF name = <<>> THEN results
        ELSE IF mapping # NoRule
        THEN [results EXCEPT !.included = AddToIncluded(@, mapping, name, item)]
        ELSE IF exclusionCheck.excluded
        THEN [results EXCEPT !.excluded =
                Append(@, [name |-> name,
                           reason |-> exclusionCheck.rule.category,
                           ruleReason |-> exclusionCheck.rule.reason])]
        ELSE [results EXCEPT !.unmapped = Append(@, OriginalEntry(name, item))]

\* the loop body also pushing every excluded entry on to the mapping stage
ClassifyItem_NoContinue(results, item, exclusionRules, mappingRules) ==
    LET name == trim(item.name)
        exclusionCheck == shouldExclude(exclusionRules, name)
        mapping == findMapping(mappingRules, name)
        afterExclusion ==
            IF exclusionCheck.excluded
            THEN [results EXCEPT !.excluded =
                    Append(@, [name |-> name,
                               reason |-> exclusionCheck.rule.category,
                               ruleReason |-> exclusionCheck.rule.reason])]
            ELSE results
    IN  IF name = <<>> THEN results
        ELSE IF mapping # NoRule
        THEN [afterExclusion EXCEPT !.included = AddToIncluded(@, mapping, name, item)]
        ELSE [afterExclusion EXCEPT !.unmapped = Append(@, OriginalEntry(name, item))]

\* a loop body that sends a mapped entry to unmapped once its canonical name
\* has an aggregate
ClassifyItem_RepeatUnmapped(results, item, exclusionRules, mappingRules) ==
    LET name == trim(item.name)
        exclusionCheck == shouldExclude(exclusionRules, name)
        mapping == findMapping(mappingRules, name)
    IN  IF name = <<>> THEN results
        ELSE IF exclusionCheck.excluded
        THEN [results EXCEPT !.excluded =
                Append(@, [name |-> name,
                           reason |-> exclusionCheck.rule.category,
                           ruleReason |-> exclusionCheck.rule.reason])]
        ELSE IF mapping # NoRule /\ ~IncludedHas(results.included, mapping.canonical_name)
        THEN [results EXCEPT !.included = AddToIncluded(@, mapping, name, item)]
        ELSE [results EXCEPT !.unmapped = Append(@, OriginalEntry(name, item))]

\* the loop body without the 'if (!name) continue' of line 160
ClassifyItem_NoSkip(results, item, exclusionRules, mappingRules) ==
    LET name == trim(item.name)
        exclusionCheck == shouldExclude(exclusionRules, name)
        mapping == findMapping(mappingRules, name)
    IN  IF exclusionCheck.excluded
        THEN [results EXCEPT !.excluded =
                Append(@, [name |-> name,
                           reason |-> exclusionCheck.rule.category,
                           ruleReason |-> exclusionCheck.rule.reason])]
        ELSE IF mapping # NoRule
        THEN [results EXCEPT !.included = AddToIncluded(@, mapping, name, item)]
        ELSE [results EXCEPT !.unmapped = Append(@, OriginalEntry(name, item))]

\* one iteration of the for loop of analyze (lines 158-199)
ClassifyItem(results, item, exclusionRules, mappingRules) ==
    LET name == trim(item.name)
        exclusionCheck == shouldExclude(exclusionRules, name)
        mapping == findMapping(mappingRules, name)
    IN  IF name = <<>> THEN results
        ELSE IF exclusionCheck.excluded
        THEN [results EXCEPT !.excluded =
                Append(@, [name |-> name,
                           reason |-> exclusionCheck.rule.category,
                           ruleReason |-> exclusionCheck.rule.reason])]
        ELSE IF mapping # NoRule
        THEN [results EXCEPT !.included = AddToIncluded(@, mapping, name, item)]
        ELSE [results EXCEPT !.unmapped = Append(@, OriginalEntry(name, item))]

RECURSIVE ClassifyFrom(_, _, _, _, _)
ClassifyFrom(softwareList, i, results, exclusionRules, mappingRules) ==
    IF i > Len(softwareList) THEN results
    ELSE ClassifyFrom(softwareList, i + 1,
                      ClassifyItem(results, softwareList[i], exclusionRules, mappingRules),
                      exclusionRules, mappingRules)

\* analyze(softwareList) after loadRules: the result for the loaded lists
analyze(softwareList, exclusionRules, mappingRules) ==
    ClassifyFrom(softwareList, 1, EmptyResults, exclusionRules, mappingRules)

\* ------------------------------------------------------------------------
\* includedArray: originalCount and totalDevices
\* ------------------------------------------------------------------------

IsDigit(c) == c \in {"0", "1", "2", "3", "4", "5", "6", "7", "8", "9"}

DigitValue(c) ==
    CASE c = "0" -> 0 [] c = "1" -> 1 [] c = "2" -> 2 [] c = "3" -> 3 [] c = "4" -> 4
      [] c = "5" -> 5 [] c = "6" -> 6 [] c = "7" -> 7 [] c = "8" -> 8 [] OTHER -> 9

RECURSIVE ParseDigits(_, _, _)
ParseDigits(s, i, acc) ==
    IF i > Len(s) \/ ~IsDigit(s[i]) THEN acc
    ELSE ParseDigits(s, i + 1, acc * 10 + DigitValue(s[i]))

RECURSIVE SkipWhitespace(_, _)
SkipWhitespace(s, i) ==
    IF i <= Len(s) /\ IsWhitespace(s[i]) THEN SkipWhitespace(s, i + 1) ELSE i

NaN == [nan |-> TRUE, v |-> 0]

\* parseInt(x): a number is itself; a text is its leading run of digits after
\* leading whitespace, NaN when there is none
parseInt(x) ==
    CASE x.t = "num" -> [nan |-> FALSE, v |-> x.n]
      [] x.t = "str" ->
            LET i == SkipWhitespace(x.s, 1)
            IN  IF i <= Len(x.s) /\ IsDigit(x.s[i])
                THEN [nan |-> FALSE, v |-> ParseDigits(x.s, i, 0)]
                ELSE NaN
      [] OTHER -> NaN

\* (parseInt(e.deviceCount) || 1) without the fallback: NaN and 0 count 0
DeviceTerm_NoFallback(e) ==
    LET p == parseInt(e.deviceCount)
    IN  IF p.nan THEN 0 ELSE p.v

\* parseInt(e.deviceCount) || 1
DeviceTerm(e) ==
    LET p == parseInt(e.deviceCount)
    IN  IF p.nan \/ p.v = 0 THEN 1 ELSE p.v

RECURSIVE SumDevices(_, _)
SumDevices(entries, i) ==
    IF i > Len(entries) THEN 0
    ELSE DeviceTerm(entries[i]) + SumDevices(entries, i + 1)

\* Array.from(results.included.values()).map(item => ({...item, originalCount, totalDevices}))
IncludedArray(included) ==
    [k \in 1..Len(included) |->
        [canonicalName |-> included[k].canonicalName,
         category |-> included[k].category,
         deploymentType |-> included[k].deploymentType,
         description |-> included[k].description,
         originalEntries |-> included[k].originalEntries,
         originalCount |-> Len(included[k].originalEntries),
         totalDevices |-> SumDevices(included[k].originalEntries, 1)]]

\* ------------------------------------------------------------------------
\* The stores (PostgreSQL tables) and their statements
\* ------------------------------------------------------------------------

RECURSIVE OrderById(_)
\* ORDER BY id
OrderById(rows) ==
    IF rows = {} THEN <<>>
    ELSE LET first == CHOOSE x \in rows : \A y \in rows : x.id <= y.id
         IN  <<first>> \o OrderById(rows \ {first})

\* SELECT * FROM <table> ORDER BY id, without the is_active filter
SelectActive_NoFilter(table) == OrderById(table)

\* SELECT * FROM <table> WHERE is_active = true ORDER BY id
SelectActive(table) == OrderById({x \in table : x.is_active = "true"})

\* INSERT INTO exclusion_rules (pattern_type, pattern_value, category, reason)
InsertExclusionRule(table, id, body) ==
    table \cup {[id |-> id,
                 pattern_type |-> body.pattern_type,
                 pattern_value |-> body.pattern_value,
                 category |-> body.category,
                 reason |-> body.reason,
                 is_active |-> "true"]}

\* UPDATE exclusion_rules SET ..., is_active = $5 WHERE id = $6
UpdateExclusionRuleRow(table, id, body) ==
    {IF x.id = id
     THEN [id |-> id,
           pattern_type |-> body.pattern_type,
           pattern_value |-> body.pattern_value,
           category |-> body.category,
           reason |-> body.reason,
           is_active |-> body.is_active]
     ELSE x : x \in table}

\* DELETE FROM <table> WHERE id = $1
DeleteById(table, id) == {x \in table : x.id # id}

\* INSERT INTO software_mappings (pattern_type, original_pattern, canonical_name, ...)
InsertMapping(table, id, body) ==
    table \cup {[id |-> id,
                 pattern_type |-> body.pattern_type,
                 original_pattern |-> body.original_pattern,
                 canonical_name |-> body.canonical_name,
                 category |-> body.category,
                 deployment_type |-> body.deployment_type,
                 description |-> body.description,
                 is_active |-> "true"]}

\* UPDATE software_mappings SET ..., is_active = COALESCE($7, is_active) WHERE id = $8
UpdateMappingRow(table, id, body) ==
    {IF x.id = id
     THEN [id |-> id,
           pattern_type |-> body.pattern_type,
           original_pattern |-> body.original_pattern,
           canonical_name |-> body.canonical_name,
           category |-> body.category,
           deployment_type |-> body.deployment_type,
           description |-> body.description,
           is_active |-> IF body.is_active # Null THEN body.is_active ELSE x.is_active]
     ELSE x : x \in table}

PendingRow(id, name) ==
    [id |-> id, canonical_name |-> name, disposition |-> "pending",
     approved_software_id |-> 0, notes |-> Null, updated_by |-> "system"]

HasDisposition(table, name) == \E x \in table : x.canonical_name = name

\* the INSERT of lines 338-342 without a unique canonical_name to conflict on
InsertPendingDisposition_NoConflict(table, id, name) ==
    table \cup {PendingRow(id, name)}

\* the INSERT of lines 338-342 written as the upsert of the admin route
InsertPendingDisposition_Overwrite(table, id, name) ==
    IF HasDisposition(table, name)
    THEN {IF x.canonical_name = name THEN PendingRow(x.id, name) ELSE x : x \in table}
    ELSE table \cup {PendingRow(id, name)}

\* INSERT INTO disposition_mappings (canonical_name, disposition, updated_by)
\* VALUES ($1, 'pending', 'system') ON CONFLICT (canonical_name) DO NOTHING
InsertPendingDisposition(table, id, name) ==
    IF HasDisposition(table, name) THEN table
    ELSE table \cup {PendingRow(id, name)}

\* INSERT ... ON CONFLICT (canonical_name) DO UPDATE SET disposition, approved_software_id,
\* notes, updated_by (POST /api/disposition-mappings)
UpsertDispositionRow(table, id, body) ==
    IF HasDisposition(table, body.canonical_name)
    THEN {IF x.canonical_name = body.canonical_name
          THEN [x EXCEPT !.disposition = body.disposition,
                         !.approved_software_id = body.approved_software_id,
                         !.notes = body.notes,
                         !.updated_by = "admin"]
          ELSE x : x \in table}
    ELSE table \cup {[id |-> id,
                      canonical_name |-> body.canonical_name,
                      disposition |-> body.disposition,
                      approved_software_id |-> body.approved_software_id,
                      notes |-> body.notes,
                      updated_by |-> "admin"]}

\* INSERT ... VALUES ($1, $2, $3, $4, 'admin') ON CONFLICT (canonical_name) DO UPDATE SET
\* disposition, approved_software_id, notes (POST /api/disposition-mappings/bulk)
BulkUpsertDispositionRow(table, id, mapping) ==
    IF HasDisposition(table, mapping.canonical_name)
    THEN {IF x.canonical_name = mapping.canonical_name
          THEN [x EXCEPT !.disposition = mapping.disposition,
                         !.approved_software_id = mapping.approved_software_id,
                         !.notes = mapping.notes]
          ELSE x : x \in table}
    ELSE table \cup {[id |-> id,
                      canonical_name |-> mapping.canonical_name,
                      disposition |-> mapping.disposition,
                      approved_software_id |-> mapping.approved_software_id,
                      notes |-> mapping.notes,
                      updated_by |-> "admin"]}

\* the approved_software table (its admin routes are not modelled)
approved_software == {[id |-> 1, name |-> "Applied Epic", category |-> "Industry / LOB"]}

ReplacementName(id) ==
    IF \E a \in approved_software : a.id = id
    THEN (CHOOSE a \in approved_software : a.id = id).name
    ELSE Null

\* SELECT dm.*, aps.name as replacement_name FROM disposition_mappings dm
\* LEFT JOIN approved_software aps ... WHERE dm.canonical_name = ANY($1)
SelectDispositions(table, canonicalNames) ==
    LET hit == OrderById({x \in table : x.canonical_name \in Range(canonicalNames)})
    IN  [k \in 1..Len(hit) |->
            [canonical_name |-> hit[k].canonical_name,
             disposition |-> hit[k].disposition,
             approved_software_id |-> hit[k].approved_software_id,
             replacement_name |-> ReplacementName(hit[k].approved_software_id),
             notes |-> hit[k].notes]]

\* ------------------------------------------------------------------------
\* Inputs: sheet rows, rule bodies, requests
\* ------------------------------------------------------------------------

RowPool ==
    {[name |-> <<"A", "b">>, publisher |-> "", deviceCount |-> Num(3)],
     [name |-> <<" ", "a", "b", " ">>, publisher |-> "Acme", deviceCount |-> Missing],
     [name |-> <<"b", "c">>, publisher |-> "", deviceCount |-> Str(<<"a", "b", "c">>)],
     [name |-> <<"c">>, publisher |-> "Acme", deviceCount |-> Str(<<"2">>)],
     [name |-> <<"d">>, publisher |-> "", deviceCount |-> Num(5)],
     [name |-> <<" ">>, publisher |-> "", deviceCount |-> Num(2)],
     [name |-> <<>>, publisher |-> "", deviceCount |-> Num(4)]}

SeqsUpTo(S, n) == UNION {[1..k -> S] : k \in 0..n}

\* the sheets a run of the classification specification may be given
Sheets == SeqsUpTo(RowPool, MaxEntries)

ExclusionBodies ==
    {[pattern_type |-> "startswith", pattern_value |-> <<"A">>,
      category |-> "OEM Tools", reason |-> "manufacturer software"],
     [pattern_type |-> "contains", pattern_value |-> <<"B">>,
      category |-> "Drivers", reason |-> "driver packages"],
     [pattern_type |-> "regex", pattern_value |-> <<"(", "b">>,
      category |-> "Windows Updates", reason |-> "KB articles"]}

MappingBodies ==
    {[pattern_type |-> "startswith", original_pattern |-> <<"a">>,
      canonical_name |-> "AMS360", category |-> "Industry / LOB",
      deployment_type |-> "Both", description |-> "agency management"],
     [pattern_type |-> "contains", original_pattern |-> <<"B">>,
      canonical_name |-> "AMS360", category |-> Null,
      deployment_type |-> Null, description |-> Null],
     [pattern_type |-> "exact", original_pattern |-> <<"B", "C">>,
      canonical_name |-> "Foxit PDF", category |-> "Office Productivity",
      deployment_type |-> "Desktop", description |-> "PDF reader"]}

\* the canonical names of the model in localeCompare order
CanonicalOrder == <<"AMS360", "Foxit PDF">>

CanonicalNames == Range(CanonicalOrder)

IsInjective(f) == \A i, j \in DOMAIN f : f[i] = f[j] => i = j

\* a table holding the bodies of seq as rows 1..Len(seq), all active
ExclusionTableOf(bodies) ==
    {[id |-> k,
      pattern_type |-> bodies[k].pattern_type,
      pattern_value |-> bodies[k].pattern_value,
      category |-> bodies[k].category,
      reason |-> bodies[k].reason,
      is_active |-> "true"] : k \in 1..Len(bodies)}

MappingTableOf(bodies) ==
    {[id |-> k,
      pattern_type |-> bodies[k].pattern_type,
      original_pattern |-> bodies[k].original_pattern,
      canonical_name |-> bodies[k].canonical_name,
      category |-> bodies[k].category,
      deployment_type |-> bodies[k].deployment_type,
      description |-> bodies[k].description,
      is_active |-> "true"] : k \in 1..Len(bodies)}

Runs == {"r1", "r2"}

\* ------------------------------------------------------------------------
\* State
\* ------------------------------------------------------------------------

VARIABLES
    exclusion_rules,         \* table exclusion_rules
    software_mappings,       \* table software_mappings
    disposition_mappings,    \* table disposition_mappings (canonical_name unique)
    analysis_history,        \* table analysis_history, rows in insertion order
    analyzer,                \* the shared SoftwareAnalyzer: exclusionRules, mappingRules
    pc,                      \* per request of POST /api/analyze: the await it is at
    sheetData,               \* per request: the rows of the uploaded sheet
    softwareList,            \* per request: the parsed sheet
    results,                 \* per request: what analyze() returned
    includedArray,           \* per request
    dispositionMap,          \* per request
    missingDispositions,     \* per request
    insertIndex,             \* per request: position in the loop over missingDispositions
    loopIndex,               \* per request: position of the loop of analyze over softwareList
    reply,                   \* per request: the answer of the store to the pending query
    response,                \* per request: the JSON answered
    ruleStoreAtLoad,         \* per request: the tables when its loading began, and the
                             \* mapping table when its second SELECT ran (history)
    fetchedDispositions,     \* per request: the rows its bulk fetch returned (history)
    admin_feedback,          \* table admin_feedback
    feedback,                \* the request of POST /api/feedback: the await it is at
    edits,                   \* administrative requests served so far
    bulk                     \* the bulk disposition request: its mappings and position

vars == <<exclusion_rules, software_mappings, disposition_mappings, analysis_history,
          analyzer, pc, sheetData, softwareList, results, includedArray, dispositionMap,
          missingDispositions, insertIndex, loopIndex, reply, response, ruleStoreAtLoad,
          fetchedDispositions, admin_feedback, feedback, edits, bulk>>

storeVars == <<exclusion_rules, software_mappings, disposition_mappings, analysis_history>>

ruleVars == <<exclusion_rules, software_mappings>>

historyVars == <<ruleStoreAtLoad, fetchedDispositions>>

feedbackVars == <<admin_feedback, feedback>>

localVars == <<sheetData, softwareList, results, includedArray, dispositionMap,
               missingDispositions, insertIndex, loopIndex, response>>

EmptyMap == [x \in {} |-> Null]

MapHas(m, k) == k \in DOMAIN m

MapSet(m, k, v) == [x \in (DOMAIN m) \cup {k} |-> IF x = k THEN v ELSE m[x]]

NoReply == [ok |-> TRUE, rows |-> <<>>, rowCount |-> 0]

ErrorReply == [ok |-> FALSE, rows |-> <<>>, rowCount |-> 0]

NoResponse == [status |-> 0]

\* no request of POST /api/feedback has arrived; idleAtSuccess records the
\* analysis requests not yet begun when the feedback request is answered 200
\* no bulk disposition request has been received
NoBulk == [pc |-> "idle", mappings |-> <<>>, index |-> 0, updated |-> 0, status |-> 0]

NoFeedback ==
    [pc |-> "idle", body |-> [action_type |-> Null], id |-> 0, status |-> 0,
     idleAtSuccess |-> {}]

NextId(table) ==
    IF table = {} THEN 1
    ELSE 1 + (CHOOSE m \in {x.id : x \in table} : \A x \in table : x.id <= m)

InitLocals ==
    /\ analysis_history = <<>>
    /\ analyzer = [exclusionRules |-> <<>>, mappingRules |-> <<>>]
    /\ pc = [r \in Runs |-> "idle"]
    /\ sheetData = [r \in Runs |-> <<>>]
    /\ softwareList = [r \in Runs |-> <<>>]
    /\ results = [r \in Runs |-> EmptyResults]
    /\ includedArray = [r \in Runs |-> <<>>]
    /\ dispositionMap = [r \in Runs |-> EmptyMap]
    /\ missingDispositions = [r \in Runs |-> <<>>]
    /\ insertIndex = [r \in Runs |-> 0]
    /\ loopIndex = [r \in Runs |-> 0]
    /\ reply = [r \in Runs |-> NoReply]
    /\ response = [r \in Runs |-> NoResponse]
    /\ ruleStoreAtLoad = [r \in Runs |-> [exclusion_rules |-> {}, software_mappings |-> {},
                                          disposition_mappings |-> {},
                                          mappingsAtSelect |-> {}]]
    /\ fetchedDispositions = [r \in Runs |-> <<>>]
    /\ admin_feedback = {}
    /\ feedback = NoFeedback
    /\ edits = 0
    /\ bulk = NoBulk

\* ------------------------------------------------------------------------
\* POST /api/analyze: disposition merge and the response
\* ------------------------------------------------------------------------

\* includedArray.map(item => item.canonicalName)
NamesOf(included) == [k \in 1..Len(included) |-> included[k].canonicalName]

RECURSIVE SetRows(_, _, _)
\* dispResult.rows.forEach(row => dispositionMap.set(row.canonical_name, {...}))
SetRows(map, rows, k) ==
    IF k > Len(rows) THEN map
    ELSE SetRows(MapSet(map, rows[k].canonical_name,
                        [disposition |-> rows[k].disposition,
                         replacementId |-> rows[k].approved_software_id,
                         replacementName |-> rows[k].replacement_name,
                         notes |-> rows[k].notes]),
                 rows, k + 1)

\* a handler that never creates a record
SelectMissing_None(canonicalNames, map) == <<>>

\* canonicalNames.filter(name => !dispositionMap.has(name))
SelectMissing(canonicalNames, map) == SelectSeq(canonicalNames, LAMBDA n : ~MapHas(map, n))

PendingEntry ==
    [disposition |-> "pending", replacementId |-> 0, replacementName |-> Null, notes |-> Null]

\* a merge that ignores the records obtained
IncludedWithDisposition_NoMerge(included, map) ==
    [k \in 1..Len(included) |->
        [canonicalName |-> included[k].canonicalName,
         category |-> included[k].category,
         deploymentType |-> included[k].deploymentType,
         description |-> included[k].description,
         originalEntries |-> included[k].originalEntries,
         originalCount |-> included[k].originalCount,
         totalDevices |-> included[k].totalDevices,
         disposition |-> "pending",
         replacementId |-> 0,
         replacementName |-> Null,
         dispositionNotes |-> Null]]

\* includedArray.map(item => ({...item, disposition: ...?.disposition || 'pending', ...}))
IncludedWithDisposition(included, map) ==
    [k \in 1..Len(included) |->
        LET item == included[k]
            has == MapHas(map, item.canonicalName)
            d == IF has THEN map[item.canonicalName] ELSE PendingEntry
        IN  [canonicalName |-> item.canonicalName,
             category |-> item.category,
             deploymentType |-> item.deploymentType,
             description |-> item.description,
             originalEntries |-> item.originalEntries,
             originalCount |-> item.originalCount,
             totalDevices |-> item.totalDevices,
             disposition |-> OrDefault(d.disposition, "pending"),
             replacementId |-> d.replacementId,
             replacementName |-> OrDefault(d.replacementName, Null),
             dispositionNotes |-> OrDefault(d.notes, Null)]]

CanonicalRank(name) == CHOOSE k \in 1..Len(CanonicalOrder) : CanonicalOrder[k] = name

RECURSIVE SortByCanonicalName(_)
\* included.sort((a, b) => a.canonicalName.localeCompare(b.canonicalName))
SortByCanonicalName(included) ==
    IF included = <<>> THEN <<>>
    ELSE LET k == CHOOSE i \in 1..Len(included) :
                    \A j \in 1..Len(included) :
                        \/ CanonicalRank(included[i].canonicalName)
                             < CanonicalRank(included[j].canonicalName)
                        \/ /\ CanonicalRank(included[i].canonicalName)
                                = CanonicalRank(included[j].canonicalName)
                           /\ i <= j
             rest == [i \in 1..(Len(included) - 1) |->
                        IF i < k THEN included[i] ELSE included[i + 1]]
         IN  <<included[k]>> \o SortByCanonicalName(rest)

\* Number(x) as the subtraction of the comparator converts its operands:
\* a text is a number only when, trimmed, it is empty or all digits
ToNumber(x) ==
    CASE x.t = "num" -> [nan |-> FALSE, v |-> x.n]
      [] x.t = "str" ->
            LET t == trim(x.s)
            IN  IF \A i \in 1..Len(t) : IsDigit(t[i])
                THEN [nan |-> FALSE, v |-> ParseDigits(t, 1, 0)]
                ELSE NaN
      [] OTHER -> NaN

\* (b.deviceCount || 0) - (a.deviceCount || 0) is NaN for some pair of the list
ComparatorIsNaN(unmapped) ==
    \E k \in 1..Len(unmapped) : ToNumber(unmapped[k].deviceCount).nan

RECURSIVE StableSortDesc(_)
StableSortDesc(unmapped) ==
    IF unmapped = <<>> THEN <<>>
    ELSE LET val(i) == ToNumber(unmapped[i].deviceCount).v
             k == CHOOSE i \in 1..Len(unmapped) :
                    \A j \in 1..Len(unmapped) :
                        val(i) > val(j) \/ (val(i) = val(j) /\ i <= j)
             rest == [i \in 1..(Len(unmapped) - 1) |->
                        IF i < k THEN unmapped[i] ELSE unmapped[i + 1]]
         IN  <<unmapped[k]>> \o StableSortDesc(rest)

Rearrangements(seq) ==
    {[i \in 1..Len(seq) |-> seq[p[i]]] : p \in Permutations(1..Len(seq))}

\* results.unmapped.sort((a, b) => (b.deviceCount || 0) - (a.deviceCount || 0)):
\* the stable descending order when the comparator is a number on every pair;
\* with a NaN comparator the order is implementation-defined
UnmappedSortOutcomes(unmapped) ==
    IF ComparatorIsNaN(unmapped) THEN Rearrangements(unmapped)
    ELSE {StableSortDesc(unmapped)}

PendingCount(included) ==
    Cardinality({k \in 1..Len(included) : included[k].disposition = "pending"})

\* res.json({success: true, summary: {...}, included, excluded, unmapped})
SuccessResponse(list, res, withDisposition, sortedUnmapped) ==
    [status |-> 200,
     summary |-> [totalInput |-> Len(list),
                  totalOutput |-> Len(withDisposition),
                  excluded |-> Len(res.excluded),
                  unmapped |-> Len(res.unmapped),
                  pendingDisposition |-> PendingCount(withDisposition)],
     included |-> SortByCanonicalName(withDisposition),
     excluded |-> res.excluded,
     unmapped |-> sortedUnmapped]

\* res.status(500).json({error})
ErrorResponse == [status |-> 500]

\* ------------------------------------------------------------------------
\* POST /api/analyze, one action per await: the statement the store executes
\* (Db...) and the continuation that runs when its answer arrives (Resume...)
\* ------------------------------------------------------------------------

\* the handler up to the first await of loadRules: the sheet is parsed and
\* the SELECT on exclusion_rules is sent
StartRun(r, data) ==
    /\ pc[r] = "idle"
    /\ sheetData' = [sheetData EXCEPT ![r] = data]
    /\ softwareList' = [softwareList EXCEPT ![r] = ParseRows(data)]
    /\ pc' = [pc EXCEPT ![r] = "loadExclusion"]
    /\ UNCHANGED <<storeVars, analyzer, results, includedArray, dispositionMap,
                   missingDispositions, insertIndex, loopIndex, reply, response,
                   historyVars, edits, bulk, feedbackVars>>

\* the store executes the SELECT of line 64
DbSelectExclusionRules(r) ==
    /\ pc[r] = "loadExclusion"
    /\ reply' = [reply EXCEPT ![r] =
                    [ok |-> TRUE, rows |-> SelectActive(exclusion_rules), rowCount |-> 0]]
    /\ ruleStoreAtLoad' = [ruleStoreAtLoad EXCEPT ![r] =
                    [exclusion_rules |-> exclusion_rules,
                     software_mappings |-> software_mappings,
                     disposition_mappings |-> disposition_mappings,
                     mappingsAtSelect |-> {}]]
    /\ pc' = [pc EXCEPT ![r] = "gotExclusion"]
    /\ UNCHANGED <<storeVars, analyzer, localVars, fetchedDispositions, edits, bulk, feedbackVars>>

\* line 67, then the SELECT of line 70 is sent; a rejected query leaves
\* analyze() by exception and the handler answers 500 (lines 387-390)
ResumeLoadExclusion(r) ==
    /\ pc[r] = "gotExclusion"
    /\ IF reply[r].ok
       THEN /\ analyzer' = [analyzer EXCEPT !.exclusionRules = reply[r].rows]
            /\ pc' = [pc EXCEPT ![r] = "loadMapping"]
            /\ UNCHANGED response
       ELSE /\ response' = [response EXCEPT ![r] = ErrorResponse]
            /\ pc' = [pc EXCEPT ![r] = "failed"]
            /\ UNCHANGED analyzer
    /\ reply' = [reply EXCEPT ![r] = NoReply]
    /\ UNCHANGED <<storeVars, sheetData, softwareList, results, includedArray, dispositionMap,
                   missingDispositions, insertIndex, loopIndex, historyVars, edits, bulk,
                   feedbackVars>>

\* the store executes the SELECT of line 70
DbSelectMappings(r) ==
    /\ pc[r] = "loadMapping"
    /\ reply' = [reply EXCEPT ![r] =
                    [ok |-> TRUE, rows |-> SelectActive(software_mappings), rowCount |-> 0]]
    /\ ruleStoreAtLoad' = [ruleStoreAtLoad EXCEPT ![r].mappingsAtSelect = software_mappings]
    /\ pc' = [pc EXCEPT ![r] = "gotMapping"]
    /\ UNCHANGED <<storeVars, analyzer, localVars, fetchedDispositions, edits, bulk, feedbackVars>>

\* a loadRules that keeps an empty mapping list when its SELECT is rejected
ResumeLoadMapping_IgnoreFailure(r) ==
    /\ pc[r] = "gotMapping"
    /\ LET rows == IF reply[r].ok THEN reply[r].rows ELSE <<>>
           res == analyze(softwareList[r], analyzer.exclusionRules, rows)
           arr == IncludedArray(res.included)
       IN  /\ analyzer' = [analyzer EXCEPT !.mappingRules = rows]
           /\ results' = [results EXCEPT ![r] = res]
           /\ includedArray' = [includedArray EXCEPT ![r] = arr]
           /\ pc' = [pc EXCEPT ![r] =
                        IF Len(arr) > 0 THEN "fetchDispositions" ELSE "logHistory"]
    /\ reply' = [reply EXCEPT ![r] = NoReply]
    /\ UNCHANGED <<storeVars, sheetData, softwareList, dispositionMap, missingDispositions,
                   insertIndex, loopIndex, response, historyVars, edits, bulk, feedbackVars>>

\* line 73; loadRules returns and, in the same turn of the event loop, analyze
\* runs its loop over this.exclusionRules / this.mappingRules (lines 152-201)
\* and the handler builds includedArray and sends the disposition SELECT
\* (lines 301-318); with no canonical name it goes on to the history INSERT
ResumeLoadMapping(r) ==
    /\ pc[r] = "gotMapping"
    /\ IF reply[r].ok
       THEN LET res == analyze(softwareList[r], analyzer.exclusionRules, reply[r].rows)
                arr == IncludedArray(res.included)
            IN  /\ analyzer' = [analyzer EXCEPT !.mappingRules = reply[r].rows]
                /\ results' = [results EXCEPT ![r] = res]
                /\ includedArray' = [includedArray EXCEPT ![r] = arr]
                /\ pc' = [pc EXCEPT ![r] =
                            IF Len(arr) > 0 THEN "fetchDispositions" ELSE "logHistory"]
                /\ UNCHANGED response
       ELSE /\ response' = [response EXCEPT ![r] = ErrorResponse]
            /\ pc' = [pc EXCEPT ![r] = "failed"]
            /\ UNCHANGED <<analyzer, results, includedArray>>
    /\ reply' = [reply EXCEPT ![r] = NoReply]
    /\ UNCHANGED <<storeVars, sheetData, softwareList, dispositionMap, missingDispositions,
                   insertIndex, loopIndex, historyVars, edits, bulk, feedbackVars>>

\* the store executes the SELECT of lines 313-318
DbSelectDispositions(r) ==
    /\ pc[r] = "fetchDispositions"
    /\ reply' = [reply EXCEPT ![r] =
                    [ok |-> TRUE,
                     rows |-> SelectDispositions(disposition_mappings,
                                                 NamesOf(includedArray[r])),
                     rowCount |-> 0]]
    /\ pc' = [pc EXCEPT ![r] = "gotDispositions"]
    /\ UNCHANGED <<storeVars, analyzer, localVars, historyVars, edits, bulk, feedbackVars>>

\* lines 320-335: fill dispositionMap (a rejected SELECT is only logged),
\* compute missingDispositions, send the first INSERT
ResumeFetchDispositions(r) ==
    /\ pc[r] = "gotDispositions"
    /\ LET map == IF reply[r].ok THEN SetRows(EmptyMap, reply[r].rows, 1) ELSE EmptyMap
           missing == SelectMissing(NamesOf(includedArray[r]), map)
       IN  /\ dispositionMap' = [dispositionMap EXCEPT ![r] = map]
           /\ missingDispositions' = [missingDispositions EXCEPT ![r] = missing]
           /\ insertIndex' = [insertIndex EXCEPT ![r] = IF missing = <<>> THEN 0 ELSE 1]
           /\ pc' = [pc EXCEPT ![r] =
                        IF missing = <<>> THEN "logHistory" ELSE "insertDisposition"]
    /\ fetchedDispositions' = [fetchedDispositions EXCEPT ![r] =
                                    IF reply[r].ok THEN reply[r].rows ELSE <<>>]
    /\ reply' = [reply EXCEPT ![r] = NoReply]
    /\ UNCHANGED <<storeVars, analyzer, sheetData, softwareList, results, includedArray, loopIndex,
                   response, ruleStoreAtLoad, edits, bulk, feedbackVars>>

\* the store executes the INSERT of lines 338-342 for missingDispositions[insertIndex]
DbInsertDisposition(r) ==
    /\ pc[r] = "insertDisposition"
    /\ LET name == missingDispositions[r][insertIndex[r]]
           after == InsertPendingDisposition(disposition_mappings,
                                             NextId(disposition_mappings), name)
       IN  /\ disposition_mappings' = after
           /\ reply' = [reply EXCEPT ![r] =
                    [ok |-> TRUE, rows |-> <<>>,
                     rowCount |-> Cardinality(after) - Cardinality(disposition_mappings)]]
    /\ pc' = [pc EXCEPT ![r] = "insertedDisposition"]
    /\ UNCHANGED <<ruleVars, analysis_history, analyzer, localVars, historyVars, edits, bulk, feedbackVars>>

\* the loop over missingDispositions without the try/catch of lines 337-346:
\* a rejected INSERT reaches the catch of the handler
ResumeInsertDisposition_Throws(r) ==
    /\ pc[r] = "insertedDisposition"
    /\ IF reply[r].ok
       THEN /\ dispositionMap' = [dispositionMap EXCEPT ![r] =
                    MapSet(@, missingDispositions[r][insertIndex[r]], PendingEntry)]
            /\ insertIndex' = [insertIndex EXCEPT ![r] = @ + 1]
            /\ pc' = [pc EXCEPT ![r] =
                        IF insertIndex[r] < Len(missingDispositions[r])
                        THEN "insertDisposition" ELSE "logHistory"]
            /\ UNCHANGED response
       ELSE /\ response' = [response EXCEPT ![r] = ErrorResponse]
            /\ pc' = [pc EXCEPT ![r] = "failed"]
            /\ UNCHANGED <<dispositionMap, insertIndex>>
    /\ reply' = [reply EXCEPT ![r] = NoReply]
    /\ UNCHANGED <<storeVars, analyzer, sheetData, softwareList, results, includedArray,
                   missingDispositions, loopIndex, historyVars, edits, bulk, feedbackVars>>

\* line 343 (skipped when the INSERT was rejected, lines 344-346), then the next
\* name of the loop, or the history INSERT of line 360 after the last one
ResumeInsertDisposition(r) ==
    /\ pc[r] = "insertedDisposition"
    /\ dispositionMap' = [dispositionMap EXCEPT ![r] =
            IF reply[r].ok
            THEN MapSet(@, missingDispositions[r][insertIndex[r]], PendingEntry)
            ELSE @]
    /\ insertIndex' = [insertIndex EXCEPT ![r] = @ + 1]
    /\ pc' = [pc EXCEPT ![r] =
                IF insertIndex[r] < Len(missingDispositions[r])
                THEN "insertDisposition" ELSE "logHistory"]
    /\ reply' = [reply EXCEPT ![r] = NoReply]
    /\ UNCHANGED <<storeVars, analyzer, sheetData, softwareList, results, includedArray,
                   missingDispositions, loopIndex, response, historyVars, edits, bulk, feedbackVars>>

\* the store executes the INSERT INTO analysis_history of lines 360-364
DbInsertHistory(r) ==
    /\ pc[r] = "logHistory"
    /\ analysis_history' = Append(analysis_history,
            [upload_filename |-> r,
             input_count |-> Len(softwareList[r]),
             output_count |-> Len(includedArray[r]),
             excluded_count |-> Len(results[r].excluded),
             status |-> "completed"])
    /\ reply' = [reply EXCEPT ![r] = [ok |-> TRUE, rows |-> <<>>, rowCount |-> 1]]
    /\ pc' = [pc EXCEPT ![r] = "loggedHistory"]
    /\ UNCHANGED <<ruleVars, disposition_mappings, analyzer, localVars, historyVars, edits, bulk,
                   feedbackVars>>

\* the store rejects the pending query (connection lost, store unavailable)
DbFails(r) ==
    /\ pc[r] \in {"loadExclusion", "loadMapping", "fetchDispositions",
                  "insertDisposition", "logHistory"}
    /\ reply' = [reply EXCEPT ![r] = ErrorReply]
    /\ pc' = [pc EXCEPT ![r] =
                CASE pc[r] = "loadExclusion" -> "gotExclusion"
                  [] pc[r] = "loadMapping" -> "gotMapping"
                  [] pc[r] = "fetchDispositions" -> "gotDispositions"
                  [] pc[r] = "insertDisposition" -> "insertedDisposition"
                  [] OTHER -> "loggedHistory"]
    /\ UNCHANGED <<storeVars, analyzer, localVars, historyVars, edits, bulk, feedbackVars>>

\* lines 350-385 (a rejected history INSERT is only logged): merge the
\* dispositions, sort, answer
Respond(r) ==
    /\ pc[r] = "loggedHistory"
    /\ \E sortedUnmapped \in UnmappedSortOutcomes(results[r].unmapped) :
          response' = [response EXCEPT ![r] =
              SuccessResponse(softwareList[r], results[r],
                              IncludedWithDisposition(includedArray[r], dispositionMap[r]),
                              sortedUnmapped)]
    /\ pc' = [pc EXCEPT ![r] = "done"]
    /\ reply' = [reply EXCEPT ![r] = NoReply]
    /\ UNCHANGED <<storeVars, analyzer, sheetData, softwareList, results, includedArray, dispositionMap,
                   missingDispositions, insertIndex, loopIndex, historyVars, edits, bulk,
                   feedbackVars>>

\* the steps of a request from the loading of the rules to the classification
LoadAndClassify(r) ==
    \/ DbSelectExclusionRules(r)
    \/ ResumeLoadExclusion(r)
    \/ DbSelectMappings(r)
    \/ ResumeLoadMapping(r)

\* the steps of a request after the classification
EnrichAndRespond(r) ==
    \/ DbSelectDispositions(r)
    \/ ResumeFetchDispositions(r)
    \/ DbInsertDisposition(r)
    \/ ResumeInsertDisposition(r)
    \/ DbInsertHistory(r)
    \/ Respond(r)

\* ------------------------------------------------------------------------
\* Administrative routes (one statement each)
\* ------------------------------------------------------------------------

ExclusionPostBodies ==
    {[pattern_type |-> "startswith", pattern_value |-> <<"A">>,
      category |-> "OEM Tools", reason |-> "manufacturer software"]}

ExclusionPutBodies ==
    {[pattern_type |-> "contains", pattern_value |-> <<"B">>,
      category |-> "Drivers", reason |-> "driver packages", is_active |-> "true"],
     [pattern_type |-> "exact", pattern_value |-> <<"d">>,
      category |-> "System Components", reason |-> "system profile", is_active |-> "false"]}

MappingPostBodies ==
    {[pattern_type |-> "contains", original_pattern |-> <<"B">>,
      canonical_name |-> "AMS360", category |-> Null,
      deployment_type |-> Null, description |-> Null]}

MappingPutBodies ==
    {[pattern_type |-> "startswith", original_pattern |-> <<"a">>,
      canonical_name |-> "Foxit PDF", category |-> "Office Productivity",
      deployment_type |-> "Desktop", description |-> "PDF reader", is_active |-> Null],
     [pattern_type |-> "startswith", original_pattern |-> <<"a">>,
      canonical_name |-> "AMS360", category |-> "Industry / LOB",
      deployment_type |-> "Both", description |-> "agency management",
      is_active |-> "false"]}

DispositionBodies ==
    {[canonical_name |-> "AMS360", disposition |-> "approved",
      approved_software_id |-> 1, notes |-> "standard"],
     [canonical_name |-> "Foxit PDF", disposition |-> "retire",
      approved_software_id |-> 0, notes |-> Null]}

\* POST /api/exclusion-rules
AddExclusionRule(body) ==
    /\ edits < MaxEdits
    /\ exclusion_rules' = InsertExclusionRule(exclusion_rules, NextId(exclusion_rules), body)
    /\ edits' = edits + 1
    /\ UNCHANGED bulk
    /\ UNCHANGED <<software_mappings, disposition_mappings, analysis_history, analyzer, pc,
                   localVars, reply, historyVars, feedbackVars>>

\* PUT /api/exclusion-rules/:id
UpdateExclusionRule(id, body) ==
    /\ edits < MaxEdits
    /\ \E x \in exclusion_rules : x.id = id
    /\ exclusion_rules' = UpdateExclusionRuleRow(exclusion_rules, id, body)
    /\ edits' = edits + 1
    /\ UNCHANGED bulk
    /\ UNCHANGED <<software_mappings, disposition_mappings, analysis_history, analyzer, pc,
                   localVars, reply, historyVars, feedbackVars>>

\* DELETE /api/exclusion-rules/:id
DeleteExclusionRule(id) ==
    /\ edits < MaxEdits
    /\ \E x \in exclusion_rules : x.id = id
    /\ exclusion_rules' = DeleteById(exclusion_rules, id)
    /\ edits' = edits + 1
    /\ UNCHANGED bulk
    /\ UNCHANGED <<software_mappings, disposition_mappings, analysis_history, analyzer, pc,
                   localVars, reply, historyVars, feedbackVars>>

\* POST /api/software-mappings
AddMapping(body) ==
    /\ edits < MaxEdits
    /\ software_mappings' = InsertMapping(software_mappings, NextId(software_mappings), body)
    /\ edits' = edits + 1
    /\ UNCHANGED bulk
    /\ UNCHANGED <<exclusion_rules, disposition_mappings, analysis_history, analyzer, pc,
                   localVars, reply, historyVars, feedbackVars>>

\* PUT /api/software-mappings/:id
UpdateMapping(id, body) ==
    /\ edits < MaxEdits
    /\ \E x \in software_mappings : x.id = id
    /\ software_mappings' = UpdateMappingRow(software_mappings, id, body)
    /\ edits' = edits + 1
    /\ UNCHANGED bulk
    /\ UNCHANGED <<exclusion_rules, disposition_mappings, analysis_history, analyzer, pc,
                   localVars, reply, historyVars, feedbackVars>>

\* DELETE /api/software-mappings/:id
DeleteMapping(id) ==
    /\ edits < MaxEdits
    /\ \E x \in software_mappings : x.id = id
    /\ software_mappings' = DeleteById(software_mappings, id)
    /\ edits' = edits + 1
    /\ UNCHANGED bulk
    /\ UNCHANGED <<exclusion_rules, disposition_mappings, analysis_history, analyzer, pc,
                   localVars, reply, historyVars, feedbackVars>>

\* POST /api/disposition-mappings
UpsertDisposition(body) ==
    /\ edits < MaxEdits
    /\ disposition_mappings' =
            UpsertDispositionRow(disposition_mappings, NextId(disposition_mappings), body)
    /\ edits' = edits + 1
    /\ UNCHANGED bulk
    /\ UNCHANGED <<ruleVars, analysis_history, analyzer, pc, localVars, reply,
                   historyVars, feedbackVars>>

RuleEdit ==
    \/ \E body \in ExclusionPostBodies : AddExclusionRule(body)
    \/ \E x \in exclusion_rules, body \in ExclusionPutBodies : UpdateExclusionRule(x.id, body)
    \/ \E x \in exclusion_rules : DeleteExclusionRule(x.id)
    \/ \E body \in MappingPostBodies : AddMapping(body)
    \/ \E x \in software_mappings, body \in MappingPutBodies : UpdateMapping(x.id, body)
    \/ \E x \in software_mappings : DeleteMapping(x.id)

DispositionEdit == \E body \in DispositionBodies : UpsertDisposition(body)

\* ------------------------------------------------------------------------
\* Specifications
\* ------------------------------------------------------------------------

\* the rule tables of a deployment: a cut of the default rows of the schema
DefaultExclusionRules ==
    ExclusionTableOf(<<[pattern_type |-> "exact", pattern_value |-> <<"d">>,
                        category |-> "System Components", reason |-> "system profile"]>>)

DefaultMappings ==
    MappingTableOf(<<[pattern_type |-> "startswith", original_pattern |-> <<"a">>,
                      canonical_name |-> "AMS360", category |-> "Industry / LOB",
                      deployment_type |-> "Both", description |-> "agency management"],
                     [pattern_type |-> "exact", original_pattern |-> <<"C">>,
                      canonical_name |-> "Foxit PDF", category |-> "Office Productivity",
                      deployment_type |-> "Desktop", description |-> "PDF reader"]>>)

\* the sheets uploaded in the concurrent specifications
Uploads ==
    {<<[name |-> <<"A", "b">>, publisher |-> "", deviceCount |-> Num(3)],
       [name |-> <<"c">>, publisher |-> "Acme", deviceCount |-> Str(<<"2">>)]>>,
     <<[name |-> <<" ", "a", "b", " ">>, publisher |-> "Acme", deviceCount |-> Missing],
       [name |-> <<"d">>, publisher |-> "", deviceCount |-> Num(5)]>>}

\* Concurrent requests of POST /api/analyze against the deployed stores, with
\* administrators editing rules and dispositions at any moment.
Init ==
    /\ exclusion_rules = DefaultExclusionRules
    /\ software_mappings = DefaultMappings
    /\ disposition_mappings = {}
    /\ InitLocals

Next ==
    \/ \E r \in Runs, data \in Uploads : StartRun(r, data)
    \/ \E r \in Runs : LoadAndClassify(r)
    \/ \E r \in Runs : EnrichAndRespond(r)
    \/ \E r \in Runs : DbFails(r)
    \/ RuleEdit
    \/ DispositionEdit

Spec == Init /\ [][Next]_vars

\* Two concurrent requests and no administrator: the race of the runs alone,
\* with the store answering every query.
NextRace ==
    \/ \E r \in Runs, data \in Uploads : StartRun(r, data)
    \/ \E r \in Runs : LoadAndClassify(r)
    \/ \E r \in Runs : EnrichAndRespond(r)

SpecRace == Init /\ [][NextRace]_vars

\* analyze() as a function of its inputs: one request, the sheet and the two
\* rule tables drawn from the pools, the store answering every query; the
\* behaviour ends when the classification and includedArray are computed.
InitAnalyze ==
    /\ \E bodies \in SeqsUpTo(ExclusionBodies, MaxRules) :
          /\ IsInjective(bodies)
          /\ exclusion_rules = ExclusionTableOf(bodies)
    /\ \E bodies \in SeqsUpTo(MappingBodies, MaxRules) :
          /\ IsInjective(bodies)
          /\ software_mappings = MappingTableOf(bodies)
    /\ disposition_mappings = {}
    /\ InitLocals

NextAnalyze ==
    \/ \E data \in Sheets : StartRun("r1", data)
    \/ LoadAndClassify("r1")

SpecAnalyze == InitAnalyze /\ [][NextAnalyze]_vars

\* Concurrent requests with administrators editing dispositions only.
NextDisposition ==
    \/ \E r \in Runs, data \in Uploads : StartRun(r, data)
    \/ \E r \in Runs : LoadAndClassify(r)
    \/ \E r \in Runs : EnrichAndRespond(r)
    \/ \E r \in Runs : DbFails(r)
    \/ DispositionEdit

SpecDisposition == Init /\ [][NextDisposition]_vars

\* ------------------------------------------------------------------------
\* Properties of the classification (SpecAnalyze)
\* ------------------------------------------------------------------------

\* the request has been classified: results and includedArray are computed
Classified(r) ==
    pc[r] \in {"fetchDispositions", "gotDispositions", "insertDisposition",
               "insertedDisposition", "logHistory", "loggedHistory", "done"}

\* the trimmed, non-empty names of the entries of a list
TrimmedNames(list) == {trim(list[i].name) : i \in 1..Len(list)} \ {<<>>}

\* how many entries of a sequence carry the (trimmed) name n
CountName(entries, n) == Cardinality({i \in 1..Len(entries) : trim(entries[i].name) = n})

RECURSIVE SumAggregates(_, _, _)
SumAggregates(included, n, k) ==
    IF k > Len(included) THEN 0
    ELSE CountName(included[k].originalEntries, n) + SumAggregates(included, n, k + 1)

\* the number of result buckets (excluded, each aggregate, unmapped) holding n
BucketsHolding(res, n) ==
    (IF CountName(res.excluded, n) > 0 THEN 1 ELSE 0)
    + Cardinality({k \in 1..Len(res.included) :
                      CountName(res.included[k].originalEntries, n) > 0})
    + (IF CountName(res.unmapped, n) > 0 THEN 1 ELSE 0)

SomeExclusionMatches(exclusionRules, n) ==
    \E i \in 1..Len(exclusionRules) : ExclusionMatches(exclusionRules[i], n)

SomeMappingMatches(mappingRules, n) ==
    \E i \in 1..Len(mappingRules) : MappingMatches(mappingRules[i], n)

\* the earliest rule of the list matching n (some rule matches)
EarliestExclusion(exclusionRules, n) ==
    exclusionRules[CHOOSE i \in 1..Len(exclusionRules) :
        /\ ExclusionMatches(exclusionRules[i], n)
        /\ \A j \in 1..(i - 1) : ~ExclusionMatches(exclusionRules[j], n)]

EarliestMapping(mappingRules, n) ==
    mappingRules[CHOOSE i \in 1..Len(mappingRules) :
        /\ MappingMatches(mappingRules[i], n)
        /\ \A j \in 1..(i - 1) : ~MappingMatches(mappingRules[j], n)]

\* the entry named n survives exclusion and its earliest mapping rule names c
MapsTo(n, c) ==
    /\ n # <<>>
    /\ ~SomeExclusionMatches(analyzer.exclusionRules, n)
    /\ SomeMappingMatches(analyzer.mappingRules, n)
    /\ EarliestMapping(analyzer.mappingRules, n).canonical_name = c

\* C1: after analyze() every entry whose trimmed name is non-empty is in exactly
\* one of the excluded list, one aggregate's originalEntries, or the unmapped
\* list: each such name is held by exactly one bucket, as many times as the
\* input holds it, and the buckets hold nothing else.
C1_Partition ==
    \A r \in Runs : Classified(r) =>
        /\ \A n \in TrimmedNames(softwareList[r]) :
              /\ BucketsHolding(results[r], n) = 1
              /\ CountName(softwareList[r], n)
                   = CountName(results[r].excluded, n)
                     + SumAggregates(results[r].included, n, 1)
                     + CountName(results[r].unmapped, n)
        /\ TrimmedNames(results[r].excluded) \subseteq TrimmedNames(softwareList[r])
        /\ TrimmedNames(results[r].unmapped) \subseteq TrimmedNames(softwareList[r])
        /\ \A k \in 1..Len(results[r].included) :
              TrimmedNames(results[r].included[k].originalEntries)
                 \subseteq TrimmedNames(softwareList[r])

\* two entries with non-empty names were classified into different buckets
C1_Witness ==
    /\ Classified("r1")
    /\ Cardinality(TrimmedNames(softwareList["r1"])) = 2
    /\ Len(results["r1"].excluded) = 1
    /\ Len(results["r1"].included) + Len(results["r1"].unmapped) = 1

\* C2: shouldExclude is first-match-wins: it reports excluded exactly when some
\* loaded exclusion rule matches the name, the rule it returns is the earliest
\* matching rule of the loaded order, and the excluded record carries that
\* rule's category as reason and its reason as ruleReason.
C2_ExclusionFirstMatch ==
    \A r \in Runs : Classified(r) =>
        /\ \A n \in TrimmedNames(softwareList[r]) :
              LET check == shouldExclude(analyzer.exclusionRules, n)
                  some == SomeExclusionMatches(analyzer.exclusionRules, n)
              IN  /\ check.excluded = some
                  /\ some => check.rule = EarliestExclusion(analyzer.exclusionRules, n)
                  /\ some = (CountName(results[r].excluded, n) > 0)
        /\ \A i \in 1..Len(results[r].excluded) :
              LET e == results[r].excluded[i]
                  first == EarliestExclusion(analyzer.exclusionRules, e.name)
              IN  /\ SomeExclusionMatches(analyzer.exclusionRules, e.name)
                  /\ e.reason = first.category
                  /\ e.ruleReason = first.reason

\* an entry was excluded whose name two loaded rules of different category match
C2_Witness ==
    /\ Classified("r1")
    /\ \E i \in 1..Len(results["r1"].excluded) :
          \E a, b \in 1..Len(analyzer.exclusionRules) :
             /\ a < b
             /\ ExclusionMatches(analyzer.exclusionRules[a], results["r1"].excluded[i].name)
             /\ ExclusionMatches(analyzer.exclusionRules[b], results["r1"].excluded[i].name)
             /\ analyzer.exclusionRules[a].category # analyzer.exclusionRules[b].category
             /\ results["r1"].excluded[i].reason = analyzer.exclusionRules[a].category

\* C3: findMapping is first-match-wins: it returns the earliest rule of the
\* loaded mapping order matching the trimmed name and null exactly when none
\* matches; an entry that survives exclusion is in unmapped exactly when no
\* mapping rule matches it, and otherwise in the aggregate keyed by the
\* canonical name of its earliest matching rule.
C3_MappingFirstMatch ==
    \A r \in Runs : Classified(r) =>
        \A n \in TrimmedNames(softwareList[r]) :
            LET mapping == findMapping(analyzer.mappingRules, n)
                some == SomeMappingMatches(analyzer.mappingRules, n)
                survives == ~SomeExclusionMatches(analyzer.exclusionRules, n)
            IN  /\ (mapping = NoRule) = ~some
                /\ some => mapping = EarliestMapping(analyzer.mappingRules, n)
                /\ survives => ((CountName(results[r].unmapped, n) > 0) = ~some)
                /\ (survives /\ some) =>
                      \E k \in 1..Len(results[r].included) :
                         /\ results[r].included[k].canonicalName
                               = EarliestMapping(analyzer.mappingRules, n).canonical_name
                         /\ CountName(results[r].included[k].originalEntries, n) > 0

\* an entry went to the aggregate of the earlier of two matching rules that
\* name different canonical names, and another entry, matched by no mapping
\* rule, went to unmapped
C3_Witness ==
    /\ Classified("r1")
    /\ Len(results["r1"].unmapped) > 0
    /\ \E k \in 1..Len(results["r1"].included) :
          \E a, b \in 1..Len(analyzer.mappingRules) :
             LET n == results["r1"].included[k].originalEntries[1].name
             IN  /\ a < b
                 /\ MappingMatches(analyzer.mappingRules[a], n)
                 /\ MappingMatches(analyzer.mappingRules[b], n)
                 /\ analyzer.mappingRules[a].canonical_name
                       # analyzer.mappingRules[b].canonical_name
                 /\ results["r1"].included[k].canonicalName
                       = analyzer.mappingRules[a].canonical_name

\* C4: exclusion takes precedence over mapping: an entry whose name matches an
\* exclusion rule is in excluded and in no aggregate and not in unmapped, even
\* if a mapping rule matches it too; every entry of an aggregate or of unmapped
\* is matched by no exclusion rule.
C4_ExclusionPrecedence ==
    \A r \in Runs : Classified(r) =>
        /\ \A n \in TrimmedNames(softwareList[r]) :
              SomeExclusionMatches(analyzer.exclusionRules, n) =>
                 /\ CountName(results[r].excluded, n) = CountName(softwareList[r], n)
                 /\ SumAggregates(results[r].included, n, 1) = 0
                 /\ CountName(results[r].unmapped, n) = 0
        /\ \A i \in 1..Len(results[r].unmapped) :
              ~SomeExclusionMatches(analyzer.exclusionRules, results[r].unmapped[i].name)
        /\ \A k \in 1..Len(results[r].included) :
              \A i \in 1..Len(results[r].included[k].originalEntries) :
                 ~SomeExclusionMatches(analyzer.exclusionRules,
                                       results[r].included[k].originalEntries[i].name)

\* an entry was excluded although a loaded mapping rule matches its name
C4_Witness ==
    /\ Classified("r1")
    /\ \E i \in 1..Len(results["r1"].excluded) :
          SomeMappingMatches(analyzer.mappingRules, results["r1"].excluded[i].name)

\* the first entry of the list, in input order, that maps to canonical name c
FirstMapped(list, c) ==
    CHOOSE i \in 1..Len(list) :
        /\ MapsTo(trim(list[i].name), c)
        /\ \A j \in 1..(i - 1) : ~MapsTo(trim(list[j].name), c)

\* C5: aggregate metadata is frozen at creation: the category, deploymentType
\* and description of the aggregate keyed C are those (with the defaults
\* 'Uncategorized', 'Desktop', '' for empty columns) of the mapping rule matched
\* by the first entry, in input order, that mapped to C, whatever rules the
\* later entries mapping to C matched.
C5_SeedFrozen ==
    \A r \in Runs : Classified(r) =>
        \A k \in 1..Len(results[r].included) :
            LET agg == results[r].included[k]
                first == softwareList[r][FirstMapped(softwareList[r], agg.canonicalName)]
                rule == EarliestMapping(analyzer.mappingRules, trim(first.name))
            IN  /\ \E i \in 1..Len(softwareList[r]) :
                      MapsTo(trim(softwareList[r][i].name), agg.canonicalName)
                /\ agg.category = OrDefault(rule.category, "Uncategorized")
                /\ agg.deploymentType = OrDefault(rule.deployment_type, "Desktop")
                /\ agg.description = OrDefault(rule.description, "")

\* an aggregate holds two entries matched by rules of different category, and
\* carries the category of the rule of the first
C5_Witness ==
    /\ Classified("r1")
    /\ \E k \in 1..Len(results["r1"].included) :
          LET agg == results["r1"].included[k]
          IN  /\ Len(agg.originalEntries) = 2
              /\ LET ruleA == EarliestMapping(analyzer.mappingRules, agg.originalEntries[1].name)
                     ruleB == EarliestMapping(analyzer.mappingRules, agg.originalEntries[2].name)
                 IN  /\ OrDefault(ruleA.category, "Uncategorized")
                          # OrDefault(ruleB.category, "Uncategorized")
                     /\ agg.category = OrDefault(ruleA.category, "Uncategorized")

\* C6: consolidation: no two included aggregates share a canonicalName, and for
\* every canonical name C the entries that survive exclusion and whose earliest
\* matching mapping rule names C are all in the one aggregate keyed C, whose
\* originalCount is their number (no such entry: no aggregate keyed C).
C6_Consolidation ==
    \A r \in Runs : Classified(r) =>
        /\ \A j, k \in 1..Len(includedArray[r]) :
              includedArray[r][j].canonicalName = includedArray[r][k].canonicalName => j = k
        /\ Len(includedArray[r]) = Len(results[r].included)
        /\ \A c \in CanonicalNames :
              LET mapped == {i \in 1..Len(softwareList[r]) :
                                MapsTo(trim(softwareList[r][i].name), c)}
                  keyed == {k \in 1..Len(includedArray[r]) :
                                includedArray[r][k].canonicalName = c}
              IN  /\ (mapped = {}) = (keyed = {})
                  /\ \A k \in keyed :
                        /\ includedArray[r][k].originalCount = Cardinality(mapped)
                        /\ Len(includedArray[r][k].originalEntries) = Cardinality(mapped)
                        /\ \A i \in mapped :
                              CountName(includedArray[r][k].originalEntries,
                                        trim(softwareList[r][i].name)) > 0

\* two entries with different names were consolidated in one aggregate
C6_Witness ==
    /\ Classified("r1")
    /\ \E k \in 1..Len(includedArray["r1"]) :
          /\ includedArray["r1"][k].originalCount = 2
          /\ includedArray["r1"][k].originalEntries[1].name
                # includedArray["r1"][k].originalEntries[2].name

\* a device count is numeric: a number, or a text made of digits only
IsNumeric(deviceCount) ==
    \/ deviceCount.t = "num"
    \/ /\ deviceCount.t = "str"
       /\ deviceCount.s # <<>>
       /\ \A i \in 1..Len(deviceCount.s) : IsDigit(deviceCount.s[i])

\* what an entry contributes: its device count, or 1 when it is not numeric
Contribution(deviceCount) ==
    IF ~IsNumeric(deviceCount) THEN 1
    ELSE IF deviceCount.t = "num" THEN deviceCount.n
    ELSE ParseDigits(deviceCount.s, 1, 0)

RECURSIVE SumContributions(_, _)
SumContributions(entries, i) ==
    IF i > Len(entries) THEN 0
    ELSE Contribution(entries[i].deviceCount) + SumContributions(entries, i + 1)

InsertExecuted(r, c) ==
    \E k \in 1..Len(missingDispositions[r]) :
        /\ missingDispositions[r][k] = c
        /\ \/ k < insertIndex[r] /\ MapHas(dispositionMap[r], c)
           \/ k = insertIndex[r] /\ pc[r] = "insertedDisposition" /\ reply[r].ok

RecordsOf(c) == {x \in disposition_mappings : x.canonical_name = c}

\* C8: disposition creation is idempotent under race: when two concurrent
\* requests both found no record for canonical name C and the INSERT of both has
\* been executed, exactly one record for C is persisted and it is 'pending';
\* a request that reached the inserts never fails, and each of them answers an
\* aggregate for C carrying a disposition.
C8_RaceIdempotent ==
    \A c \in CanonicalNames :
        /\ (\A r \in Runs : InsertExecuted(r, c)) =>
              /\ Cardinality(RecordsOf(c)) = 1
              /\ \A x \in RecordsOf(c) : x.disposition = "pending"
        /\ \A r \in Runs : c \in Range(missingDispositions[r]) =>
              /\ pc[r] # "failed"
              /\ pc[r] = "done" =>
                    /\ response[r].status = 200
                    /\ \E k \in 1..Len(response[r].included) :
                          /\ response[r].included[k].canonicalName = c
                          /\ response[r].included[k].disposition = "pending"

\* both requests found no record for the same name, both INSERTs were
\* executed, and both requests have answered
C8_Witness ==
    \E c \in CanonicalNames :
        /\ \A r \in Runs : InsertExecuted(r, c) /\ pc[r] = "done"
        /\ Cardinality(RecordsOf(c)) = 1

\* a step of a request of POST /api/analyze
RunStep(r) ==
    \/ \E data \in Uploads : StartRun(r, data)
    \/ LoadAndClassify(r)
    \/ EnrichAndRespond(r)
    \/ DbFails(r)

\* C9: an analysis run never changes an existing disposition record: every
\* record persisted before a step of a request (its INSERT included, also when
\* an administrator wrote the record after the request's fetch or the fetch
\* failed) is persisted unchanged after the step.
C9_NeverMutatesExisting ==
    [][(\E r \in Runs : RunStep(r)) =>
          \A x \in disposition_mappings : x \in disposition_mappings']_vars

\* the INSERT of a request for a name it found missing met a record that an
\* administrator had written meanwhile, and left it as written
C9_Witness ==
    \E r \in Runs :
        /\ pc[r] = "insertedDisposition"
        /\ reply[r].ok
        /\ reply[r].rowCount = 0
        /\ \E x \in RecordsOf(missingDispositions[r][insertIndex[r]]) :
              /\ x.disposition = "approved"
              /\ x.approved_software_id = 1

\* C10: an administrative rule edit committed after a request began loading its
\* rules has no effect on the request: its classification is the one computed
\* from the rule tables as they were when its loading began.
C10_RunIsolatedFromEdits ==
    \A r \in Runs : Classified(r) =>
        results[r] = analyze(softwareList[r],
                             SelectActive(ruleStoreAtLoad[r].exclusion_rules),
                             SelectActive(ruleStoreAtLoad[r].software_mappings))

\* ------------------------------------------------------------------------
\* The loop of analyze, entry by entry, on the single thread of the server
\* ------------------------------------------------------------------------

ThreadFree_Preemptive == TRUE

\* A callback of the handler starts only when no other callback is running:
\* the loop of analyze (lines 158-199) holds no await, so from its first
\* entry to its last it runs in one turn of the event loop.
ThreadFree == \A q \in Runs : pc[q] # "classifying"

\* line 73 and lines 152-156: the mapping rows are stored in the analyzer, the
\* empty results are built and the loop is entered
BeginClassify(r) ==
    /\ pc[r] = "gotMapping"
    /\ IF reply[r].ok
       THEN /\ analyzer' = [analyzer EXCEPT !.mappingRules = reply[r].rows]
            /\ results' = [results EXCEPT ![r] = EmptyResults]
            /\ loopIndex' = [loopIndex EXCEPT ![r] = 1]
            /\ pc' = [pc EXCEPT ![r] = "classifying"]
            /\ UNCHANGED response
       ELSE /\ response' = [response EXCEPT ![r] = ErrorResponse]
            /\ pc' = [pc EXCEPT ![r] = "failed"]
            /\ UNCHANGED <<analyzer, results, loopIndex>>
    /\ reply' = [reply EXCEPT ![r] = NoReply]
    /\ UNCHANGED <<storeVars, sheetData, softwareList, includedArray, dispositionMap,
                   missingDispositions, insertIndex, historyVars, edits, bulk, feedbackVars>>

\* one pass of the body of the loop (lines 159-198), reading this.exclusionRules
\* and this.mappingRules as they are now
ClassifyEntry(r) ==
    /\ pc[r] = "classifying"
    /\ loopIndex[r] <= Len(softwareList[r])
    /\ results' = [results EXCEPT ![r] =
            ClassifyItem(@, softwareList[r][loopIndex[r]],
                         analyzer.exclusionRules, analyzer.mappingRules)]
    /\ loopIndex' = [loopIndex EXCEPT ![r] = @ + 1]
    /\ UNCHANGED <<storeVars, analyzer, pc, sheetData, softwareList, includedArray, dispositionMap,
                   missingDispositions, insertIndex, reply, response, historyVars,
                   edits, bulk, feedbackVars>>

\* the loop is over: analyze returns, the handler builds includedArray and
\* sends its next query (lines 201, 301-318)
EndClassify(r) ==
    /\ pc[r] = "classifying"
    /\ loopIndex[r] > Len(softwareList[r])
    /\ LET arr == IncludedArray(results[r].included)
       IN  /\ includedArray' = [includedArray EXCEPT ![r] = arr]
           /\ pc' = [pc EXCEPT ![r] =
                        IF Len(arr) > 0 THEN "fetchDispositions" ELSE "logHistory"]
    /\ UNCHANGED <<storeVars, analyzer, sheetData, softwareList, results, dispositionMap,
                   missingDispositions, insertIndex, loopIndex, reply, response,
                   historyVars, edits, bulk, feedbackVars>>

\* a query of loadRules is rejected
LoadFails(r) ==
    /\ pc[r] \in {"loadExclusion", "loadMapping"}
    /\ DbFails(r)

\* Concurrent requests up to the end of their classification, the loop of
\* analyze taken entry by entry, with administrators editing the rules.
NextLoop ==
    \/ /\ ThreadFree
       /\ \E r \in Runs, data \in Uploads : StartRun(r, data)
    \/ /\ ThreadFree
       /\ \E r \in Runs : ResumeLoadExclusion(r)
    \/ /\ ThreadFree
       /\ \E r \in Runs : BeginClassify(r)
    \/ \E r \in Runs : ClassifyEntry(r)
    \/ \E r \in Runs : EndClassify(r)
    \/ \E r \in Runs : DbSelectExclusionRules(r)
    \/ \E r \in Runs : DbSelectMappings(r)
    \/ \E r \in Runs : LoadFails(r)
    \/ RuleEdit

SpecLoop == Init /\ [][NextLoop]_vars

\* C11: while a run is inside the loop of analyze, from its first entry to
\* its last, no step of any request or administrator replaces or modifies the
\* exclusion list or the mapping list of the shared analyzer, so every entry
\* of the run is evaluated against the same two lists.
C11_ListsStableWhileClassifying ==
    [][\A r \in Runs : pc[r] = "classifying" => analyzer' = analyzer]_vars

\* a run has classified its first entry and not its last, while another run's
\* loadRules has an answer waiting that differs from the list being read
C11_Witness ==
    \E r, q \in Runs :
        /\ pc[r] = "classifying"
        /\ loopIndex[r] = 2
        /\ Len(softwareList[r]) = 2
        /\ pc[q] = "gotExclusion"
        /\ reply[q].ok
        /\ reply[q].rows # analyzer.exclusionRules
        /\ edits > 0

\* ------------------------------------------------------------------------
\* Disposition enrichment of one run (SpecEnrich)
\* ------------------------------------------------------------------------

\* the disposition tables an administrator can have left behind
DispositionTables ==
    {{[id |-> CanonicalRank(b.canonical_name),
       canonical_name |-> b.canonical_name,
       disposition |-> b.disposition,
       approved_software_id |-> b.approved_software_id,
       notes |-> b.notes,
       updated_by |-> "admin"] : b \in S} : S \in SUBSET DispositionBodies}

InitEnrich ==
    /\ exclusion_rules = DefaultExclusionRules
    /\ software_mappings = DefaultMappings
    /\ disposition_mappings \in DispositionTables
    /\ InitLocals

\* One request from upload to answer, the stores answering every query and
\* nobody else writing.
NextEnrich ==
    \/ \E data \in Sheets : StartRun("r1", data)
    \/ LoadAndClassify("r1")
    \/ EnrichAndRespond("r1")

SpecEnrich == InitEnrich /\ [][NextEnrich]_vars

\* the request has answered 200
Completed(r) == pc[r] = "done" /\ response[r].status = 200

\* the canonical names of the response's aggregates that had no record in
\* the disposition table when the run began
NewNames(r) ==
    {response[r].included[k].canonicalName : k \in 1..Len(response[r].included)}
        \ {x.canonical_name : x \in ruleStoreAtLoad[r].disposition_mappings}

\* C12: after a run that completes with the disposition store answering and
\* no other writer, every included canonical name that had no disposition
\* record before the run has a persisted record with disposition 'pending',
\* and its aggregate is returned with disposition 'pending' and a null
\* replacementId.
C12_NewNamePending ==
    \A r \in Runs :
        Completed(r) =>
            \A k \in 1..Len(response[r].included) :
                LET a == response[r].included[k]
                IN  a.canonicalName \in NewNames(r) =>
                        /\ \E x \in disposition_mappings :
                              /\ x.canonical_name = a.canonicalName
                              /\ x.disposition = "pending"
                        /\ a.disposition = "pending"
                        /\ a.replacementId = 0

\* a completed run with one canonical name never seen before and one that an
\* administrator had already decided on
C12_Witness ==
    /\ Completed("r1")
    /\ Len(response["r1"].included) = 2
    /\ Cardinality(NewNames("r1")) = 1
    /\ \E k \in 1..2 : response["r1"].included[k].disposition # "pending"

\* ------------------------------------------------------------------------
\* Properties of the merge (SpecDisposition)
\* ------------------------------------------------------------------------

\* the row of the run's bulk fetch for a canonical name
FetchedFor(r, c) ==
    {fetchedDispositions[r][k] : k \in {i \in 1..Len(fetchedDispositions[r]) :
                                            fetchedDispositions[r][i].canonical_name = c}}

RegexExclusionBodies ==
    {[pattern_type |-> "regex", pattern_value |-> <<"(", "b">>,
      category |-> "Windows Updates", reason |-> "KB articles"],
     [pattern_type |-> "regex", pattern_value |-> <<"^", "a">>,
      category |-> "OEM Tools", reason |-> "manufacturer software"],
     [pattern_type |-> "contains", pattern_value |-> <<"B">>,
      category |-> "Drivers", reason |-> "driver packages"]}

RegexMappingBodies ==
    {[pattern_type |-> "regex", original_pattern |-> <<"(", "b">>,
      canonical_name |-> "AMS360", category |-> "Industry / LOB",
      deployment_type |-> "Both", description |-> "agency management"],
     [pattern_type |-> "regex", original_pattern |-> <<"b">>,
      canonical_name |-> "Foxit PDF", category |-> "Office Productivity",
      deployment_type |-> "Desktop", description |-> "PDF reader"],
     [pattern_type |-> "startswith", original_pattern |-> <<"a">>,
      canonical_name |-> "AMS360", category |-> Null,
      deployment_type |-> Null, description |-> Null]}

RegexRows ==
    {[name |-> <<"A", "b">>, publisher |-> "", deviceCount |-> Num(3)],
     [name |-> <<"b", "c">>, publisher |-> "Acme", deviceCount |-> Str(<<"2">>)],
     [name |-> <<"d">>, publisher |-> "", deviceCount |-> Num(5)]}

RegexSheets == SeqsUpTo(RegexRows, MaxEntries)

InitRegex ==
    /\ \E bodies \in SeqsUpTo(RegexExclusionBodies, MaxRules) :
          /\ IsInjective(bodies)
          /\ exclusion_rules = ExclusionTableOf(bodies)
    /\ \E bodies \in SeqsUpTo(RegexMappingBodies, MaxRules) :
          /\ IsInjective(bodies)
          /\ software_mappings = MappingTableOf(bodies)
    /\ disposition_mappings = {}
    /\ InitLocals

NextRegex ==
    \/ \E data \in RegexSheets : StartRun("r1", data)
    \/ LoadAndClassify("r1")

\* analyze() over rule tables holding valid and invalid regex rules
SpecRegex == InitRegex /\ [][NextRegex]_vars

InvalidExclusion(rule) == rule.pattern_type = "regex" /\ RegExpThrows(rule.pattern_value)

InvalidMapping(rule) == rule.pattern_type = "regex" /\ RegExpThrows(rule.original_pattern)

\* C14: a regex rule whose pattern does not compile matches no name, does not
\* abort the run and does not stop the scan: the run is classified, and its
\* result is the one the same lists give with the invalid rules taken out, in
\* the exclusion stage and in the mapping stage.
C14_InvalidRegexSkipped ==
    /\ pc["r1"] # "failed"
    /\ Classified("r1") =>
          LET exclusionRules == SelectActive(exclusion_rules)
              mappingRules == SelectActive(software_mappings)
          IN  /\ \A n \in TrimmedNames(softwareList["r1"]) :
                    /\ \A i \in 1..Len(exclusionRules) :
                          InvalidExclusion(exclusionRules[i])
                              => ~ExclusionMatches(exclusionRules[i], n)
                    /\ \A i \in 1..Len(mappingRules) :
                          InvalidMapping(mappingRules[i])
                              => ~MappingMatches(mappingRules[i], n)
              /\ results["r1"] =
                    analyze(softwareList["r1"],
                            SelectSeq(exclusionRules, LAMBDA x : ~InvalidExclusion(x)),
                            SelectSeq(mappingRules, LAMBDA x : ~InvalidMapping(x)))

\* both lists begin with an invalid regex rule; one entry is excluded by the
\* exclusion rule after it and another is mapped by the mapping rule after it
C14_Witness ==
    /\ Classified("r1")
    /\ Len(analyzer.exclusionRules) = 2
    /\ InvalidExclusion(analyzer.exclusionRules[1])
    /\ Len(analyzer.mappingRules) = 2
    /\ InvalidMapping(analyzer.mappingRules[1])
    /\ Len(results["r1"].excluded) = 1
    /\ results["r1"].excluded[1].reason = analyzer.exclusionRules[2].category
    /\ Len(results["r1"].included) = 1
    /\ results["r1"].included[1].canonicalName = analyzer.mappingRules[2].canonical_name

\* ------------------------------------------------------------------------
\* Blank names (SpecAnalyze)
\* ------------------------------------------------------------------------

\* the row has no name, an empty name, or a name of whitespace only
BlankName(row) == trim(row.name) = <<>>

\* the names held by the three buckets of a result
BucketNames(res) ==
    {res.excluded[k].name : k \in 1..Len(res.excluded)}
        \cup {res.unmapped[k].name : k \in 1..Len(res.unmapped)}
        \cup UNION {{res.included[k].originalEntries[j].name :
                        j \in 1..Len(res.included[k].originalEntries)} :
                    k \in 1..Len(res.included)}

RECURSIVE Contributors(_, _)
\* the number of entries held by the aggregates from the k-th on
Contributors(included, k) ==
    IF k > Len(included) THEN 0
    ELSE Len(included[k].originalEntries) + Contributors(included, k + 1)

\* C15: a row whose name is missing, empty or only whitespace is skipped
\* before classification: no bucket holds a blank name, the buckets hold as
\* many entries as the sheet has rows with a name, and the result is the one
\* the sheet gives with its blank rows taken out.
C15_BlankSkipped ==
    Classified("r1") =>
        LET res == results["r1"]
            named == SelectSeq(sheetData["r1"], LAMBDA row : ~BlankName(row))
        IN  /\ <<>> \notin BucketNames(res)
            /\ \A n \in BucketNames(res) : trim(n) = n
            /\ Len(res.excluded) + Len(res.unmapped) + Contributors(res.included, 1)
                 = Len(named)
            /\ res = analyze(ParseRows(named),
                             analyzer.exclusionRules, analyzer.mappingRules)

\* a sheet whose first row has a whitespace-only name that reaches analyze,
\* and whose second row is classified
C15_Witness ==
    /\ Classified("r1")
    /\ Len(sheetData["r1"]) = 2
    /\ Len(softwareList["r1"]) = 2
    /\ BlankName(sheetData["r1"][1])
    /\ ~BlankName(sheetData["r1"][2])
    /\ Cardinality(BucketNames(results["r1"])) = 1

\* ------------------------------------------------------------------------
\* Failures of the disposition store (SpecDisposition)
\* ------------------------------------------------------------------------

\* the aggregate carries the default disposition and null replacement fields
DefaultDisposition(a) ==
    /\ a.disposition = "pending"
    /\ a.replacementId = 0
    /\ a.replacementName = Null
    /\ a.dispositionNotes = Null

\* C16: whatever the disposition store rejects during enrichment (the bulk
\* fetch, any INSERT), no step takes a classified run to failure, the run
\* answers 200 when it ends, and every aggregate for which the run obtained
\* no record is returned with disposition 'pending' and null replacementId,
\* replacementName and dispositionNotes.
C16_EnrichmentFailureTolerated ==
    /\ [](\A r \in Runs :
            pc[r] = "done" =>
                /\ response[r].status = 200
                /\ \A k \in 1..Len(response[r].included) :
                      ~MapHas(dispositionMap[r], response[r].included[k].canonicalName)
                          => DefaultDisposition(response[r].included[k]))
    /\ [][\A r \in Runs : Classified(r) => pc'[r] # "failed"]_vars

\* a run has answered after its bulk fetch was rejected (a record existed for
\* one of its names and the fetch returned nothing) and one of its INSERTs
\* was rejected too (a missing name was never set in dispositionMap)
C16_Witness ==
    \E r \in Runs :
        /\ Completed(r)
        /\ Len(response[r].included) = 2
        /\ fetchedDispositions[r] = <<>>
        /\ \E x \in ruleStoreAtLoad[r].disposition_mappings :
              x.canonical_name \in Range(NamesOf(includedArray[r]))
        /\ \E k \in 1..Len(missingDispositions[r]) :
              ~MapHas(dispositionMap[r], missingDispositions[r][k])

\* ------------------------------------------------------------------------
\* Failures of the rule store (SpecDisposition)
\* ------------------------------------------------------------------------

\* the request is inside loadRules
Loading(r) == pc[r] \in {"loadExclusion", "gotExclusion", "loadMapping", "gotMapping"}

\* the rows of analysis_history logged by the request
HistoryOf(r) ==
    {k \in 1..Len(analysis_history) : analysis_history[k].upload_filename = r}

\* C17: a rejected SELECT of loadRules ends the run as a failure: the next
\* step of the request answers 500, and a failed run has classified no entry,
\* published no included / excluded / unmapped result, and has written no
\* disposition record and no analysis-history row (no step of a run that is
\* still loading writes to those tables).
C17_LoadFailureFatal ==
    /\ [](\A r \in Runs :
            pc[r] = "failed" =>
                /\ response[r] = ErrorResponse
                /\ results[r] = EmptyResults
                /\ includedArray[r] = <<>>
                /\ missingDispositions[r] = <<>>
                /\ HistoryOf(r) = {})
    /\ [][\A r \in Runs :
            /\ (Loading(r) /\ ~reply[r].ok /\ reply'[r] # reply[r])
                    => (pc'[r] = "failed" /\ response'[r].status = 500)
            /\ (Loading(r) /\ RunStep(r))
                    => UNCHANGED <<disposition_mappings, analysis_history>>]_vars

\* one run failed on the SELECT of exclusion_rules and the other on the SELECT
\* of software_mappings, after its exclusion rules were loaded
C17_Witness ==
    \E r, q \in Runs :
        /\ pc[r] = "failed"
        /\ pc[q] = "failed"
        /\ sheetData[r] # <<>>
        /\ ruleStoreAtLoad[r].exclusion_rules = {}
        /\ ruleStoreAtLoad[q].exclusion_rules # {}
        /\ analyzer.exclusionRules # <<>>

\* ------------------------------------------------------------------------
\* The order of the unmapped list (SpecSort)
\* ------------------------------------------------------------------------

MaxSortEntries == 3

\* rows left unmapped by the default rules, their device counts a number or
\* a text, and one row that is mapped
SortRows ==
    {[name |-> <<"b", "c">>, publisher |-> "", deviceCount |-> Num(5)],
     [name |-> <<"b">>, publisher |-> "Acme", deviceCount |-> Str(<<"a", "b", "c">>)],
     [name |-> <<"c", "b">>, publisher |-> "", deviceCount |-> Num(7)],
     [name |-> <<"A", "b">>, publisher |-> "", deviceCount |-> Num(3)]}

SortSheets == SeqsUpTo(SortRows, MaxSortEntries)

NextSort ==
    \/ \E data \in SortSheets : StartRun("r1", data)
    \/ LoadAndClassify("r1")
    \/ EnrichAndRespond("r1")

\* One request over a sheet of up to MaxSortEntries rows, the stores
\* answering every query.
SpecSort == Init /\ [][NextSort]_vars

\* the count an unmapped entry is ranked by: its number, the value of its
\* digits, or v for a text that is no number
EffectiveCount(deviceCount, v) ==
    IF ToNumber(deviceCount).nan THEN v ELSE ToNumber(deviceCount).v

\* C18: the unmapped list of the response is in descending order of
\* deviceCount: whatever count a text that is no number stands for, each
\* entry's effective count is at least that of the entry after it.
C18_UnmappedSortedDesc ==
    \A r \in Runs :
        Completed(r) =>
            \E v \in 0..9 :
                \A k \in 1..(Len(response[r].unmapped) - 1) :
                    EffectiveCount(response[r].unmapped[k].deviceCount, v)
                        >= EffectiveCount(response[r].unmapped[k + 1].deviceCount, v)

\* ------------------------------------------------------------------------
\* The literal pattern types (SpecMatch)
\* ------------------------------------------------------------------------

MatchExclusionBodies ==
    {[pattern_type |-> "exact", pattern_value |-> <<"A", "B">>,
      category |-> "System Components", reason |-> "system profile"],
     [pattern_type |-> "contains", pattern_value |-> <<"b">>,
      category |-> "Drivers", reason |-> "driver packages"],
     [pattern_type |-> "startswith", pattern_value |-> <<"b", "C">>,
      category |-> "OEM Tools", reason |-> "manufacturer software"],
     [pattern_type |-> "endswith", pattern_value |-> <<"C">>,
      category |-> "Language Packs", reason |-> "language resources"]}

MatchMappingBodies ==
    {[pattern_type |-> "exact", original_pattern |-> <<"b", "C">>,
      canonical_name |-> "Foxit PDF", category |-> "Office Productivity",
      deployment_type |-> "Desktop", description |-> "PDF reader"],
     [pattern_type |-> "contains", original_pattern |-> <<"B">>,
      canonical_name |-> "AMS360", category |-> "Industry / LOB",
      deployment_type |-> "Both", description |-> "agency management"],
     [pattern_type |-> "startswith", original_pattern |-> <<"C">>,
      canonical_name |-> "Foxit PDF", category |-> Null,
      deployment_type |-> Null, description |-> Null]}

MatchRows ==
    {[name |-> <<"A", "b">>, publisher |-> "", deviceCount |-> Num(3)],
     [name |-> <<" ", "a", "B", " ">>, publisher |-> "Acme", deviceCount |-> Missing],
     [name |-> <<"b", "C">>, publisher |-> "", deviceCount |-> Num(5)],
     [name |-> <<"c", "a">>, publisher |-> "", deviceCount |-> Str(<<"2">>)]}

MatchSheets == SeqsUpTo(MatchRows, MaxEntries)

InitMatch ==
    /\ \E bodies \in SeqsUpTo(MatchExclusionBodies, MaxRules) :
          /\ IsInjective(bodies)
          /\ exclusion_rules = ExclusionTableOf(bodies)
    /\ \E bodies \in SeqsUpTo(MatchMappingBodies, MaxRules) :
          /\ IsInjective(bodies)
          /\ software_mappings = MappingTableOf(bodies)
    /\ disposition_mappings = {}
    /\ InitLocals

NextMatch ==
    \/ \E data \in MatchSheets : StartRun("r1", data)
    \/ LoadAndClassify("r1")

\* analyze() over rule tables of the types exact, contains, startswith and
\* endswith, the patterns and names in mixed case
SpecMatch == InitMatch /\ [][NextMatch]_vars

\* p is s, a prefix of s, a suffix of s, a substring of s
IsPrefixOf(p, s) == \E k \in 0..Len(s) : p = [i \in 1..k |-> s[i]]

IsSuffixOf(p, s) == \E k \in 0..Len(s) : p = [i \in 1..k |-> s[Len(s) - k + i]]

IsSubstringOf(p, s) ==
    \E lo \in 0..Len(s) : \E k \in 0..(Len(s) - lo) : p = [i \in 1..k |-> s[lo + i]]

\* the relation the pattern type stands for
Relation(type, p, s) ==
    CASE type = "exact" -> p = s
      [] type = "contains" -> IsSubstringOf(p, s)
      [] type = "startswith" -> IsPrefixOf(p, s)
      [] type = "endswith" -> IsSuffixOf(p, s)
      [] OTHER -> FALSE

\* the character in its two letter cases
LetterCases(c) ==
    CASE c \in {"a", "A"} -> {"a", "A"}
      [] c \in {"b", "B"} -> {"b", "B"}
      [] c \in {"c", "C"} -> {"c", "C"}
      [] OTHER -> {c}

RECURSIVE CaseVariants(_)
\* the texts that differ from s in letter case only
CaseVariants(s) ==
    IF s = <<>> THEN {<<>>}
    ELSE {<<c>> \o t : c \in LetterCases(Head(s)), t \in CaseVariants(Tail(s))}

LiteralTypes == {"exact", "contains", "startswith", "endswith"}

\* C19: for the types exact, contains, startswith and endswith a rule matches
\* a name iff its lower-cased pattern is equal to, a substring of, a prefix of
\* or a suffix of the lower-cased trimmed name, in the exclusion scan and (for
\* the three types it has) in the mapping scan; so the match is the same for
\* every change of letter case in the name or in the pattern.
C19_CaseInsensitiveLiteral ==
    Classified("r1") =>
        \A n \in TrimmedNames(softwareList["r1"]) :
            /\ \A i \in 1..Len(analyzer.exclusionRules) :
                  LET rule == analyzer.exclusionRules[i]
                  IN  rule.pattern_type \in LiteralTypes =>
                        /\ ExclusionMatches(rule, n)
                             <=> Relation(rule.pattern_type,
                                          toLowerCase(rule.pattern_value), toLowerCase(n))
                        /\ \A m \in CaseVariants(n), q \in CaseVariants(rule.pattern_value) :
                              ExclusionMatches([rule EXCEPT !.pattern_value = q], m)
                                  <=> ExclusionMatches(rule, n)
            /\ \A i \in 1..Len(analyzer.mappingRules) :
                  LET rule == analyzer.mappingRules[i]
                  IN  rule.pattern_type \in LiteralTypes =>
                        /\ MappingMatches(rule, n)
                             <=> Relation(rule.pattern_type,
                                          toLowerCase(rule.original_pattern), toLowerCase(n))
                        /\ \A m \in CaseVariants(n), q \in CaseVariants(rule.original_pattern) :
                              MappingMatches([rule EXCEPT !.original_pattern = q], m)
                                  <=> MappingMatches(rule, n)

\* the names "Ab" and " aB " were both excluded by the exact rule on "AB",
\* whose case differs from both
C19_Witness ==
    /\ Classified("r1")
    /\ Len(analyzer.exclusionRules) >= 1
    /\ analyzer.exclusionRules[1].pattern_type = "exact"
    /\ Len(results["r1"].excluded) = 2
    /\ results["r1"].excluded[1].name = <<"A", "b">>
    /\ results["r1"].excluded[2].name = <<"a", "B">>

\* ------------------------------------------------------------------------
\* POST /api/feedback (lines 505-554), one action per statement of the store
\* ------------------------------------------------------------------------

FeedbackBodies ==
    {[software_name |-> <<"A", "B">>, action_type |-> "exclude",
      reason |-> "not business software", suggested_canonical_name |-> Null,
      suggested_category |-> Null, suggested_deployment_type |-> Null],
     [software_name |-> <<"c">>, action_type |-> "exclude",
      reason |-> "", suggested_canonical_name |-> Null,
      suggested_category |-> Null, suggested_deployment_type |-> Null],
     [software_name |-> <<"A", "B">>, action_type |-> "categorize",
      reason |-> "pdf tool", suggested_canonical_name |-> "Foxit PDF",
      suggested_category |-> Null, suggested_deployment_type |-> Null],
     [software_name |-> <<"b", "c">>, action_type |-> "categorize",
      reason |-> "pdf tool", suggested_canonical_name |-> "Foxit PDF",
      suggested_category |-> "Office Productivity",
      suggested_deployment_type |-> "Desktop"],
     [software_name |-> <<"c">>, action_type |-> "include",
      reason |-> "line of business", suggested_canonical_name |-> Null,
      suggested_category |-> Null, suggested_deployment_type |-> Null]}

\* a handler that marks a 'categorize' applied without creating the mapping
AfterFeedbackInsert_NoCategorize(body) ==
    CASE body.action_type = "exclude" /\ body.reason # "" -> "applyExclude"
      [] body.action_type \in {"categorize", "include"} -> "markApplied"
      [] OTHER -> "respond"

\* the statement the handler sends after the INSERT INTO admin_feedback
AfterFeedbackInsert(body) ==
    CASE body.action_type = "exclude" /\ body.reason # "" -> "applyExclude"
      [] body.action_type = "categorize" /\ body.suggested_canonical_name # Null
            -> "applyCategorize"
      [] body.action_type = "include" -> "markApplied"
      [] OTHER -> "respond"

\* INSERT INTO admin_feedback (...) VALUES (...) RETURNING * (lines 509-514)
FeedbackInsert(body) ==
    /\ feedback.pc = "idle"
    /\ LET id == NextId(admin_feedback)
       IN  /\ admin_feedback' = admin_feedback \cup
                    {[id |-> id,
                      software_name |-> body.software_name,
                      action_type |-> body.action_type,
                      reason |-> body.reason,
                      applied_to_rules |-> "false"]}
           /\ feedback' = [feedback EXCEPT !.pc = AfterFeedbackInsert(body),
                                           !.body = body,
                                           !.id = id]
    /\ UNCHANGED <<storeVars, analyzer, pc, localVars, reply, historyVars, edits, bulk>>

\* INSERT INTO exclusion_rules ... VALUES ('exact', $1, 'User Defined', $2, $3)
\* (lines 518-522)
FeedbackApplyExclude ==
    /\ feedback.pc = "applyExclude"
    /\ exclusion_rules' =
            InsertExclusionRule(exclusion_rules, NextId(exclusion_rules),
                                [pattern_type |-> "exact",
                                 pattern_value |-> feedback.body.software_name,
                                 category |-> "User Defined",
                                 reason |-> feedback.body.reason])
    /\ feedback' = [feedback EXCEPT !.pc = "markApplied"]
    /\ UNCHANGED <<software_mappings, disposition_mappings, analysis_history, analyzer, pc,
                   localVars, reply, historyVars, edits, bulk, admin_feedback>>

\* INSERT INTO software_mappings ... VALUES ('exact', $1, $2, $3, $4, $5, $6)
\* (lines 530-534)
FeedbackApplyCategorize ==
    /\ feedback.pc = "applyCategorize"
    /\ software_mappings' =
            InsertMapping(software_mappings, NextId(software_mappings),
                          [pattern_type |-> "exact",
                           original_pattern |-> feedback.body.software_name,
                           canonical_name |-> feedback.body.suggested_canonical_name,
                           category |-> OrDefault(feedback.body.suggested_category,
                                                  "Uncategorized"),
                           deployment_type |-> OrDefault(feedback.body.suggested_deployment_type,
                                                         "Desktop"),
                           description |-> feedback.body.reason])
    /\ feedback' = [feedback EXCEPT !.pc = "markApplied"]
    /\ UNCHANGED <<exclusion_rules, disposition_mappings, analysis_history, analyzer, pc,
                   localVars, reply, historyVars, edits, bulk, admin_feedback>>

\* UPDATE admin_feedback SET applied_to_rules = true WHERE id = $1
\* (lines 523-526, 535-538, 544-547)
FeedbackMarkApplied ==
    /\ feedback.pc = "markApplied"
    /\ admin_feedback' = {IF x.id = feedback.id
                          THEN [x EXCEPT !.applied_to_rules = "true"]
                          ELSE x : x \in admin_feedback}
    /\ feedback' = [feedback EXCEPT !.pc = "respond"]
    /\ UNCHANGED <<storeVars, analyzer, pc, localVars, reply, historyVars, edits, bulk>>

\* res.json({success: true, feedback}) (line 550)
FeedbackRespond ==
    /\ feedback.pc = "respond"
    /\ feedback' = [feedback EXCEPT !.pc = "done",
                                    !.status = 200,
                                    !.idleAtSuccess = {r \in Runs : pc[r] = "idle"}]
    /\ UNCHANGED <<storeVars, analyzer, pc, localVars, reply, historyVars, edits, bulk,
                   admin_feedback>>

\* the store rejects the statement the handler is waiting for (its first
\* INSERT when no statement has run yet): the catch of lines 551-553 answers
\* 500 and nothing is undone
FeedbackFails ==
    /\ feedback.pc \in {"idle", "applyExclude", "applyCategorize", "markApplied"}
    /\ feedback' = [feedback EXCEPT !.pc = "failed", !.status = 500]
    /\ UNCHANGED <<storeVars, analyzer, pc, localVars, reply, historyVars, edits, bulk,
                   admin_feedback>>

FeedbackStep ==
    \/ \E body \in FeedbackBodies : FeedbackInsert(body)
    \/ FeedbackApplyExclude
    \/ FeedbackApplyCategorize
    \/ FeedbackMarkApplied
    \/ FeedbackRespond
    \/ FeedbackFails

\* the sheets uploaded around a feedback request: their second names are
\* matched by no default rule
FeedbackUploads ==
    {<<[name |-> <<"A", "b">>, publisher |-> "", deviceCount |-> Num(3)],
       [name |-> <<"b", "c">>, publisher |-> "Acme", deviceCount |-> Str(<<"2">>)]>>,
     <<[name |-> <<"d">>, publisher |-> "", deviceCount |-> Num(5)],
       [name |-> <<" ", "b", "C", " ">>, publisher |-> "Acme", deviceCount |-> Missing]>>}

\* Two analysis requests up to their classification and one feedback request.
NextFeedback ==
    \/ \E r \in Runs, data \in FeedbackUploads : StartRun(r, data)
    \/ \E r \in Runs : LoadAndClassify(r)
    \/ FeedbackStep

SpecFeedback == Init /\ [][NextFeedback]_vars

\* the feedback request was answered 200 for an 'exclude' with a reason
ExcludeFeedbackSucceeded ==
    /\ feedback.pc = "done"
    /\ feedback.status = 200
    /\ feedback.body.action_type = "exclude"
    /\ feedback.body.reason # ""

\* the rule the feedback request asks for
IsFeedbackRule(x) ==
    /\ x.pattern_type = "exact"
    /\ x.pattern_value = feedback.body.software_name
    /\ x.category = "User Defined"
    /\ x.is_active = "true"

\* the entry's trimmed name is the feedback's software name, ignoring case
NamedInFeedback(item) ==
    toLowerCase(trim(item.name)) = toLowerCase(feedback.body.software_name)

\* C20: once a feedback request with action 'exclude' and a reason has been
\* answered 200 for software name N, an active exact exclusion rule for N of
\* category 'User Defined' exists, the feedback row is marked applied, and
\* every analysis request begun after that answer, while the rule is active,
\* classifies each entry whose trimmed name is N ignoring case as excluded.
C20_FeedbackExcludes ==
    ExcludeFeedbackSucceeded =>
        /\ \E x \in exclusion_rules : IsFeedbackRule(x)
        /\ \E f \in admin_feedback : f.id = feedback.id /\ f.applied_to_rules = "true"
        /\ \A r \in feedback.idleAtSuccess :
              (Classified(r) /\ \E x \in exclusion_rules : IsFeedbackRule(x)) =>
                  \A i \in 1..Len(softwareList[r]) :
                      NamedInFeedback(softwareList[r][i]) =>
                          \E k \in 1..Len(results[r].excluded) :
                              results[r].excluded[k].name = trim(softwareList[r][i].name)

\* the feedback request was answered 200 for a 'categorize' with a suggested
\* canonical name
CategorizeFeedbackSucceeded ==
    /\ feedback.pc = "done"
    /\ feedback.status = 200
    /\ feedback.body.action_type = "categorize"
    /\ feedback.body.suggested_canonical_name # Null

\* the mapping the feedback request created
IsFeedbackMapping(x) ==
    /\ x.pattern_type = "exact"
    /\ x.original_pattern = feedback.body.software_name
    /\ x.canonical_name = feedback.body.suggested_canonical_name
    /\ \A y \in software_mappings : y.id <= x.id

\* no active rule other than the feedback's own matches its software name
FeedbackNameWasUnmatched ==
    /\ ~SomeExclusionMatches(SelectActive(exclusion_rules), feedback.body.software_name)
    /\ ~SomeMappingMatches(SelectActive({x \in software_mappings : ~IsFeedbackMapping(x)}),
                           feedback.body.software_name)

\* the entry is held by the aggregate keyed c
HeldByAggregate(res, item, c) ==
    \E k \in 1..Len(res.included) :
        /\ res.included[k].canonicalName = c
        /\ \E j \in 1..Len(res.included[k].originalEntries) :
              res.included[k].originalEntries[j] = OriginalEntry(trim(item.name), item)

\* C21: once a feedback request with action 'categorize' and suggested
\* canonical name C has been answered 200 for a software name N that no
\* active rule matched, the feedback row is marked applied and every analysis
\* request begun after that answer, the rules otherwise unchanged, places
\* each entry named N in the aggregate keyed C and not in unmapped.
C21_FeedbackCategorizes ==
    (CategorizeFeedbackSucceeded /\ FeedbackNameWasUnmatched) =>
        /\ \E f \in admin_feedback : f.id = feedback.id /\ f.applied_to_rules = "true"
        /\ \A r \in feedback.idleAtSuccess :
              Classified(r) =>
                  \A i \in 1..Len(softwareList[r]) :
                      NamedInFeedback(softwareList[r][i]) =>
                          /\ HeldByAggregate(results[r], softwareList[r][i],
                                             feedback.body.suggested_canonical_name)
                          /\ \A k \in 1..Len(results[r].unmapped) :
                                results[r].unmapped[k].name # trim(softwareList[r][i].name)

\* a request begun before the feedback left "bc" unmapped, and a request
\* begun after its answer has " bC " under the suggested canonical name
C21_Witness ==
    \E r, q \in Runs :
        /\ CategorizeFeedbackSucceeded
        /\ FeedbackNameWasUnmatched
        /\ r \in feedback.idleAtSuccess
        /\ Classified(r)
        /\ \E i \in 1..Len(softwareList[r]) :
              /\ NamedInFeedback(softwareList[r][i])
              /\ HeldByAggregate(results[r], softwareList[r][i], "Foxit PDF")
        /\ q \notin feedback.idleAtSuccess
        /\ Classified(q)
        /\ Len(results[q].unmapped) = 1

\* ------------------------------------------------------------------------
\* The rules that decide an outcome and the rules active at load time
\* ------------------------------------------------------------------------

\* some rule active in the table decides the exclusion recorded in entry e
ActiveExclusionDecides(table, e) ==
    \E x \in table :
        /\ x.is_active = "true"
        /\ ExclusionMatches(x, e.name)
        /\ e.reason = x.category
        /\ e.ruleReason = x.reason

\* some rule active in the table maps the name to the canonical name c
ActiveMappingDecides(table, n, c) ==
    \E y \in table :
        /\ y.is_active = "true"
        /\ MappingMatches(y, n)
        /\ y.canonical_name = c

\* C22: every outcome of a request is decided by a rule that was active when
\* the request read the rule's table: no exclusion is decided by a rule that
\* was inactive or deleted when the request's SELECT on exclusion_rules ran,
\* and no aggregate holds an entry through a mapping that was inactive or
\* deleted when its SELECT on software_mappings ran.
C22_OnlyActiveRulesDecide ==
    \A r \in Runs : Classified(r) =>
        /\ \A i \in 1..Len(results[r].excluded) :
              ActiveExclusionDecides(ruleStoreAtLoad[r].exclusion_rules,
                                     results[r].excluded[i])
        /\ \A k \in 1..Len(results[r].included) :
              \A j \in 1..Len(results[r].included[k].originalEntries) :
                  ActiveMappingDecides(ruleStoreAtLoad[r].mappingsAtSelect,
                                       results[r].included[k].originalEntries[j].name,
                                       results[r].included[k].canonicalName)

\* ------------------------------------------------------------------------
\* POST /api/disposition-mappings/bulk and the uniqueness of canonical names
\* ------------------------------------------------------------------------

\* req.body.mappings of a bulk request
BulkBodies ==
    {<<[canonical_name |-> "AMS360", disposition |-> "retire",
        approved_software_id |-> 0, notes |-> Null],
       [canonical_name |-> "Foxit PDF", disposition |-> "review",
        approved_software_id |-> 0, notes |-> "ask the owner"]>>}

\* the request arrives: const { mappings } = req.body; const results = []
BulkStart(mappings) ==
    /\ bulk.pc = "idle"
    /\ bulk' = [bulk EXCEPT !.pc = "upserting", !.mappings = mappings, !.index = 1]
    /\ UNCHANGED <<storeVars, analyzer, pc, localVars, reply, historyVars, edits, feedbackVars>>

\* one turn of the loop: the store executes the upsert of the next mapping
\* and its row is pushed on results
BulkUpsertNext ==
    /\ bulk.pc = "upserting"
    /\ bulk.index <= Len(bulk.mappings)
    /\ disposition_mappings' =
            BulkUpsertDispositionRow(disposition_mappings, NextId(disposition_mappings),
                                     bulk.mappings[bulk.index])
    /\ bulk' = [bulk EXCEPT !.index = @ + 1, !.updated = @ + 1]
    /\ UNCHANGED <<ruleVars, analysis_history, analyzer, pc, localVars, reply, historyVars,
                   edits, feedbackVars>>

\* res.json({ success: true, updated: results.length })
BulkRespond ==
    /\ bulk.pc = "upserting"
    /\ bulk.index > Len(bulk.mappings)
    /\ bulk' = [bulk EXCEPT !.pc = "done", !.status = 200]
    /\ UNCHANGED <<storeVars, analyzer, pc, localVars, reply, historyVars, edits, feedbackVars>>

\* the store rejects the next upsert: the catch answers 500 and the rows
\* already written stay
BulkFails ==
    /\ bulk.pc = "upserting"
    /\ bulk.index <= Len(bulk.mappings)
    /\ bulk' = [bulk EXCEPT !.pc = "failed", !.status = 500]
    /\ UNCHANGED <<storeVars, analyzer, pc, localVars, reply, historyVars, edits, feedbackVars>>

BulkStep ==
    \/ \E mappings \in BulkBodies : BulkStart(mappings)
    \/ BulkUpsertNext
    \/ BulkRespond
    \/ BulkFails

\* the sheet both requests upload: one entry for each canonical name
UpsertUpload ==
    <<[name |-> <<"A", "b">>, publisher |-> "", deviceCount |-> Num(3)],
      [name |-> <<"c">>, publisher |-> "Acme", deviceCount |-> Str(<<"2">>)]>>

\* Concurrent requests with a single upsert and a bulk upsert of dispositions.
NextUpsert ==
    \/ \E r \in Runs : StartRun(r, UpsertUpload)
    \/ \E r \in Runs : LoadAndClassify(r)
    \/ \E r \in Runs : EnrichAndRespond(r)
    \/ DispositionEdit
    \/ BulkStep

SpecUpsert == Init /\ [][NextUpsert]_vars

\* C23: the disposition store never holds two records with the same
\* canonical name, whatever the interleaving of analysis requests, single
\* upserts and bulk upserts.
C23_OneRecordPerName ==
    \A x, y \in disposition_mappings : x.canonical_name = y.canonical_name => x = y

\* a request found its insert refused by a record an administrator wrote, the
\* single upsert and both upserts of the bulk request have run, and the store
\* holds one record for each of the two names
C23_Witness ==
    /\ bulk.pc = "done"
    /\ bulk.updated = 2
    /\ edits = 1
    /\ Cardinality(disposition_mappings) = 2
    /\ \E r \in Runs :
          /\ pc[r] = "insertedDisposition"
          /\ reply[r].ok
          /\ reply[r].rowCount = 0

\* ------------------------------------------------------------------------
\* The lists a request classifies with and the lists its own loadRules read
\* ------------------------------------------------------------------------

\* the rows the request's own SELECT on exclusion_rules returned
OwnExclusionList(r) == SelectActive(ruleStoreAtLoad[r].exclusion_rules)

\* the rows the request's own SELECT on software_mappings returned
OwnMappingList(r) == SelectActive(ruleStoreAtLoad[r].mappingsAtSelect)

\* C24: while a request classifies, the exclusion list and the mapping list
\* held by the analyzer are the lists the request's own loadRules fetched: no
\* other request's loadRules has replaced either of them since.
C24_ClassifiesWithOwnLists ==
    \A r \in Runs :
        pc[r] = "classifying" =>
            /\ analyzer.exclusionRules = OwnExclusionList(r)
            /\ analyzer.mappingRules = OwnMappingList(r)

\* the mapping list alone: it is stored by the callback that enters the loop
OwnMappingListKept ==
    \A r \in Runs : pc[r] = "classifying" => analyzer.mappingRules = OwnMappingList(r)

\* ------------------------------------------------------------------------
\* The reported disposition and the record at the request's last operation
\* ------------------------------------------------------------------------

\* the store executes the request's INSERT for its next missing name
InsertStep(r) ==
    /\ pc[r] = "insertDisposition"
    /\ pc'[r] = "insertedDisposition"
    /\ reply'[r].ok

RECURSIVE SumOriginalCount(_, _)
SumOriginalCount(included, k) ==
    IF k > Len(included) THEN 0
    ELSE included[k].originalCount + SumOriginalCount(included, k + 1)

\* C26: in every successful response, summary.totalInput equals
\* summary.excluded + summary.unmapped + the sum of originalCount over the
\* included aggregates, whatever entries the parsing passed in.
C26_SummaryConservation ==
    \A r \in Runs :
        Completed(r) =>
            response[r].summary.totalInput =
                response[r].summary.excluded + response[r].summary.unmapped
                    + SumOriginalCount(response[r].included, 1)

\* ------------------------------------------------------------------------
\* Classification entry by entry
\* ------------------------------------------------------------------------

\* where a result holds the entries named n: excluded with a category and a
\* reason, in the aggregate of a canonical name, or unmapped
BucketsOf(res, n) ==
    {[kind |-> "excluded", category |-> res.excluded[k].reason,
      reason |-> res.excluded[k].ruleReason, key |-> Null] :
        k \in {i \in 1..Len(res.excluded) : res.excluded[i].name = n}}
    \cup {[kind |-> "included", category |-> Null, reason |-> Null,
           key |-> res.included[k].canonicalName] :
        k \in {i \in 1..Len(res.included) :
                 \E j \in 1..Len(res.included[i].originalEntries) :
                     res.included[i].originalEntries[j].name = n}}
    \cup {[kind |-> "unmapped", category |-> Null, reason |-> Null, key |-> Null] :
        k \in {i \in 1..Len(res.unmapped) : res.unmapped[i].name = n}}

\* C27: the bucket of an entry (excluded with its category and reason, the
\* aggregate of a canonical name, or unmapped) is the one the entry gets when
\* it is classified alone with the same rule lists, whatever the other
\* entries of the list and their order (the sheets of the specification are
\* all the sequences of rows, so every rearrangement and every sub-list of a
\* sheet is a sheet too): the other entries have no part in it.
C27_IndependentPerEntry ==
    Classified("r1") =>
        \A i \in 1..Len(softwareList["r1"]) :
            LET item == softwareList["r1"][i]
                n == trim(item.name)
                alone == analyze(<<item>>, analyzer.exclusionRules, analyzer.mappingRules)
            IN  n # <<>> =>
                    /\ Cardinality(BucketsOf(results["r1"], n)) = 1
                    /\ BucketsOf(results["r1"], n) = BucketsOf(alone, n)

\* two entries with different names are held by one aggregate, which the
\* first of them opened
C27_Witness ==
    /\ Classified("r1")
    /\ Len(softwareList["r1"]) = 2
    /\ Len(results["r1"].included) = 1
    /\ Len(results["r1"].included[1].originalEntries) = 2
    /\ results["r1"].included[1].originalEntries[1].name
          # results["r1"].included[1].originalEntries[2].name

\* ------------------------------------------------------------------------
\* The order and the fields of the entries inside the results
\* ------------------------------------------------------------------------

\* the result of the entry classified alone with the loaded lists
Alone(item) == analyze(<<item>>, analyzer.exclusionRules, analyzer.mappingRules)

\* the entries of the list that are excluded, in the order of the list
InputExcluded(list) ==
    SelectSeq(list, LAMBDA item : Len(Alone(item).excluded) = 1)

\* the entries of the list mapped to the canonical name c, in the order of the list
InputMappedTo(list, c) ==
    SelectSeq(list, LAMBDA item : /\ Len(Alone(item).included) = 1
                                  /\ Alone(item).included[1].canonicalName = c)

\* every aggregate lists the entries mapped to its canonical name in the
\* order of the input, each as {trimmed name, publisher, deviceCount}
OriginalEntriesInInputOrder(r) ==
    \A k \in 1..Len(results[r].included) :
        LET a == results[r].included[k]
            from == InputMappedTo(softwareList[r], a.canonicalName)
        IN  /\ Len(a.originalEntries) = Len(from)
            /\ \A j \in 1..Len(from) :
                  a.originalEntries[j] = OriginalEntry(trim(from[j].name), from[j])

\* C28 as amended: the excluded list and each aggregate's originalEntries
\* list their entries in the order of the input; an entry of originalEntries
\* carries the trimmed name, the publisher and the deviceCount of its input
\* entry, an entry of the excluded list the trimmed name with the category
\* and reason of the rule that excluded it.
C28_InputOrderKept ==
    Classified("r1") =>
        LET from == InputExcluded(softwareList["r1"])
        IN  /\ Len(results["r1"].excluded) = Len(from)
            /\ \A k \in 1..Len(from) :
                  /\ results["r1"].excluded[k] = Alone(from[k]).excluded[1]
                  /\ results["r1"].excluded[k].name = trim(from[k].name)
            /\ OriginalEntriesInInputOrder("r1")

\* C28 as documented: in input order, every entry of the excluded list and of
\* each aggregate's originalEntries carries the trimmed name, the publisher
\* and the deviceCount of its input entry.
C28_EntriesCarryPublisherAndCount ==
    Classified("r1") =>
        LET from == InputExcluded(softwareList["r1"])
        IN  /\ Len(results["r1"].excluded) = Len(from)
            /\ \A k \in 1..Len(from) :
                  LET e == results["r1"].excluded[k]
                  IN  /\ e.name = trim(from[k].name)
                      /\ "publisher" \in DOMAIN e
                      /\ "deviceCount" \in DOMAIN e
                      /\ e.publisher = from[k].publisher
                      /\ e.deviceCount = from[k].deviceCount
            /\ OriginalEntriesInInputOrder("r1")

\* an aggregate holds ' ab ' and 'Ab' in the order of the sheet, the first
\* under its trimmed name
C28_Witness ==
    /\ Classified("r1")
    /\ Len(results["r1"].included) = 1
    /\ Len(results["r1"].included[1].originalEntries) = 2
    /\ softwareList["r1"][1].name = <<" ", "a", "b", " ">>
    /\ results["r1"].included[1].originalEntries[1].name = <<"a", "b">>
    /\ results["r1"].included[1].originalEntries[2].name = <<"A", "b">>

\* ------------------------------------------------------------------------
\* PUT of a rule by id with is_active left out of the body
\* ------------------------------------------------------------------------

\* bodies of PUT /api/exclusion-rules/:id without is_active: the parameter $5
\* is undefined and reaches the store as NULL
ExclusionPutWithoutActive ==
    {[pattern_type |-> "exact", pattern_value |-> <<"d">>,
      category |-> "System Components", reason |-> "system profile", is_active |-> Null],
     [pattern_type |-> "contains", pattern_value |-> <<"B">>,
      category |-> "Drivers", reason |-> "driver packages", is_active |-> Null]}

\* bodies of PUT /api/software-mappings/:id without is_active: the parameter
\* $7 is null
MappingPutWithoutActive ==
    {[pattern_type |-> "startswith", original_pattern |-> <<"a">>,
      canonical_name |-> "Foxit PDF", category |-> "Office Productivity",
      deployment_type |-> "Desktop", description |-> "PDF reader", is_active |-> Null],
     [pattern_type |-> "exact", original_pattern |-> <<"C">>,
      canonical_name |-> "Foxit PDF", category |-> "Office Productivity",
      deployment_type |-> "Desktop", description |-> "PDF reader", is_active |-> Null]}

\* Requests up to their classification, and administrators updating rules by
\* id without is_active; every rule is active at the start.
NextPut ==
    \/ \E r \in Runs, data \in Uploads : StartRun(r, data)
    \/ \E r \in Runs : LoadAndClassify(r)
    \/ \E x \in exclusion_rules, body \in ExclusionPutWithoutActive :
            UpdateExclusionRule(x.id, body)
    \/ \E x \in software_mappings, body \in MappingPutWithoutActive :
            UpdateMapping(x.id, body)

SpecPut == Init /\ [][NextPut]_vars

\* the rows a SELECT returned are all the rules of the table
ReturnsAll(rows, table) == {rows[k].id : k \in 1..Len(rows)} = {x.id : x \in table}

\* the mapping half: a mapping updated without is_active stays active and
\* every SELECT on software_mappings returns it
MappingPutKeepsActive ==
    /\ \A y \in software_mappings : y.is_active = "true"
    /\ \A r \in Runs :
          (pc[r] = "gotMapping" /\ reply[r].ok)
              => ReturnsAll(reply[r].rows, ruleStoreAtLoad[r].mappingsAtSelect)

\* C29: an update of a rule by id whose body has no is_active leaves the
\* rule's active status as it was, for exclusion rules and software mappings
\* alike: the rules, all active at the start, stay active, and every SELECT of
\* a request returns all of them.
C29_PutKeepsActive ==
    /\ \A x \in exclusion_rules : x.is_active = "true"
    /\ \A r \in Runs :
          (pc[r] = "gotExclusion" /\ reply[r].ok)
              => ReturnsAll(reply[r].rows, ruleStoreAtLoad[r].exclusion_rules)
    /\ MappingPutKeepsActive

\* ------------------------------------------------------------------------
\* POST /api/feedback: what is persisted when it fails and when it applies
\* ------------------------------------------------------------------------

\* an exclusion rule or a mapping created for the software name since the start
RuleCreatedFor(n) ==
    \/ \E x \in exclusion_rules \ DefaultExclusionRules : x.pattern_value = n
    \/ \E y \in software_mappings \ DefaultMappings : y.original_pattern = n

\* an error answer leaves nothing stored
FeedbackErrorLeavesNothing ==
    feedback.pc = "failed" =>
        /\ admin_feedback = {}
        /\ exclusion_rules = DefaultExclusionRules
        /\ software_mappings = DefaultMappings

\* a feedback row marked applied has a rule for its software name
FeedbackAppliedHasRule ==
    \A f \in admin_feedback :
        f.applied_to_rules = "true" => RuleCreatedFor(f.software_name)

\* C30: when the feedback request has answered with an error, no feedback row
\* and no rule derived from it is stored; and every stored feedback row with
\* applied_to_rules = true has a rule for its software name that the request
\* created.
C30_FeedbackAllOrNothing == FeedbackErrorLeavesNothing /\ FeedbackAppliedHasRule

====
